---------------------------- MODULE Spec2Model ----------------------------
(***************************************************************************)
(* Model of biobasis_merge_py: the time-grid merge (merge_logic.py), the   *)
(* timestamp-column lookup (parse_header.py) and the meteorological        *)
(* formulas with the iterative wet-bulb solver (meteorology.py).           *)
(*                                                                         *)
(* Timestamps are minutes since 00:00 of day 0.  A DataFrame is a record   *)
(* [cols, rows]: cols is the ordered column list, rows a sequence of       *)
(* functions from column name to cell.  A cell is a tagged value so that a *)
(* number never compares equal to a timestamp (pandas never matches an     *)
(* integer label against a DatetimeIndex label).                           *)
(***************************************************************************)
EXTENDS Integers, Sequences, FiniteSets, TLC

VARIABLES
    dataframes,      \* input: the list of per-file DataFrames
    date_start,      \* input: range start (minutes since day 0, 00:00)
    date_end,        \* input: range end
    freq,            \* input of create_complete_time_index: minutes per slot
    pc,              \* position in the running call
    timestamp_col,   \* merge_daily_data's local timestamp_col
    merged_df,       \* merge_daily_data's local merged_df / the frame in hand
    err,             \* message of the exception raised, or NoError
    trace,           \* the functions entered so far by the running call
    complete_index,  \* result of a direct create_complete_time_index call
    summary,         \* result of get_merge_summary
    T,               \* wet-bulb call: air temperature
    RH,              \* wet-bulb call: relative humidity
    SP,              \* wet-bulb call: air pressure
    ea,              \* wet-bulb call: vapor pressure
    Td,              \* calculate_wet_bulb_temperature's local Td
    Tw,              \* calculate_wet_bulb_temperature's local Tw
    iter,            \* the loop variable i of the solver
    evals,           \* evaluations of calculate_wet_bulb_vapor_pressure so far
    wet_bulb,        \* the value calculate_wet_bulb_temperature returned
    args,            \* the arguments of a direct call of a formula or entry point
    result,          \* the value that call returned
    fs               \* the files and directories that exist

mergeVars == <<dataframes, date_start, date_end, freq, pc, timestamp_col,
               merged_df, err, trace, complete_index, summary>>

wbVars == <<T, RH, SP, ea, Td, Tw, iter, evals, wet_bulb>>

callVars == <<args, result, fs>>

vars == <<mergeVars, wbVars, callVars>>

-----------------------------------------------------------------------------
(* Bounds of the model *)

MaxDay == 1
MaxSeries == 2
MaxRows == 2
MaxGridDay == 3

-----------------------------------------------------------------------------
(* Cells and frames *)

NaN == [kind |-> "nan", v |-> 0]
Ts(m) == [kind |-> "ts", v |-> m]
Num(n) == [kind |-> "num", v |-> n]

isnull(c) == c.kind = "nan"

NoError == "none"
NoCol == "<none>"
EmptyFrame == [cols |-> <<>>, rows |-> <<>>]

MinutesPerDay == 24 * 60
DayStart(d) == d * MinutesPerDay

Range(s) == {s[i] : i \in 1..Len(s)}

-----------------------------------------------------------------------------
(* parse_header.get_timestamp_column_info *)

timestamp_candidates ==
    <<"TIMESTAMP", "timestamp", "DateTime", "datetime", "TIME", "time">>

NoColumnsMsg == "No columns found in header"

\* the first candidate, in priority order, that is among column_names
RECURSIVE FirstCandidate(_, _)
FirstCandidate(cands, column_names) ==
    IF cands = <<>> THEN NoCol
    ELSE IF Head(cands) \in Range(column_names) THEN Head(cands)
    ELSE FirstCandidate(Tail(cands), column_names)

\* mutant: the first field, in field order, that is a candidate
get_timestamp_column_info_by_position(column_names) ==
    LET hits == SelectSeq(column_names, LAMBDA c : c \in Range(timestamp_candidates)) IN
    IF hits # <<>> THEN [err |-> NoError, val |-> hits[1]]
    ELSE IF column_names # <<>> THEN [err |-> NoError, val |-> column_names[1]]
    ELSE [err |-> NoColumnsMsg, val |-> NoCol]

get_timestamp_column_info(column_names) ==
    LET c == FirstCandidate(timestamp_candidates, column_names) IN
    IF c # NoCol THEN [err |-> NoError, val |-> c]
    ELSE IF column_names # <<>> THEN [err |-> NoError, val |-> column_names[1]]
    ELSE [err |-> NoColumnsMsg, val |-> NoCol]

-----------------------------------------------------------------------------
(* merge_logic.concatenate_dataframes: pd.concat(dataframes, ignore_index=True) *)

NoConcatMsg == "No dataframes to concatenate"

\* the union of the frames' columns, in order of first appearance
RECURSIVE UnionCols(_, _)
UnionCols(dfs, acc) ==
    IF dfs = <<>> THEN acc
    ELSE LET new == SelectSeq(Head(dfs).cols, LAMBDA c : c \notin Range(acc))
         IN UnionCols(Tail(dfs), acc \o new)

\* a row widened to the columns cs: a column its frame lacks reads NaN
PadRow(r, cs) == [c \in cs |-> IF c \in DOMAIN r THEN r[c] ELSE NaN]

\* mutant: the frames are taken last to first
RECURSIVE ConcatRows_reversed(_, _)
ConcatRows_reversed(dfs, cs) ==
    IF dfs = <<>> THEN <<>>
    ELSE LET h == dfs[Len(dfs)] IN
         [i \in 1..Len(h.rows) |-> PadRow(h.rows[i], cs)]
            \o ConcatRows_reversed(SubSeq(dfs, 1, Len(dfs) - 1), cs)

RECURSIVE ConcatRows(_, _)
ConcatRows(dfs, cs) ==
    IF dfs = <<>> THEN <<>>
    ELSE LET h == Head(dfs) IN
         [i \in 1..Len(h.rows) |-> PadRow(h.rows[i], cs)] \o ConcatRows(Tail(dfs), cs)

pd_concat(dfs) ==
    LET cols == UnionCols(dfs, <<>>) IN
    [cols |-> cols, rows |-> ConcatRows(dfs, Range(cols))]

concatenate_dataframes(dfs) ==
    IF dfs = <<>> THEN [err |-> NoConcatMsg, val |-> EmptyFrame]
    ELSE [err |-> NoError, val |-> pd_concat(dfs)]

-----------------------------------------------------------------------------
(* merge_logic.sort_by_timestamp: df.sort_values(by=timestamp_col)          *)
(* sort_values sorts ascending with kind='quicksort' and na_position='last'.*)
(* quicksort is not a stable sort: rows with equal keys may come out in any *)
(* order, so the result is a set of possible frames.                        *)

MissingColMsg == "Timestamp column not found in dataframe"

Perms(n) == {p \in [1..n -> 1..n] : \A i, j \in 1..n : i # j => p[i] # p[j]}

\* a may precede b in ascending order with missing keys last
KeyLE(a, b) == isnull(b) \/ (~isnull(a) /\ a.v <= b.v)

sort_values(df, by) ==
    LET n == Len(df.rows) IN
    {[cols |-> df.cols, rows |-> [i \in 1..n |-> df.rows[p[i]]]] :
        p \in {q \in Perms(n) :
                 \A i, j \in 1..n :
                    i < j => KeyLE(df.rows[q[i]][by], df.rows[q[j]][by])}}

\* mutant: the check is made per record, a record without the field raises
sort_by_timestamp_raises_per_record(df, col) ==
    \/ col \notin Range(df.cols)
    \/ \E i \in 1..Len(df.rows) : isnull(df.rows[i][col])

sort_by_timestamp_raises(df, col) == col \notin Range(df.cols)

sort_by_timestamp(df, col) == sort_values(df, col)

-----------------------------------------------------------------------------
(* merge_logic.remove_duplicates: drop_duplicates(subset=[col], keep='first') *)

\* mutant: keep='last', a row is dropped when a later row has its key
RECURSIVE KeepFirst_last(_, _, _)
KeepFirst_last(rows, col, seen) ==
    IF rows = <<>> THEN <<>>
    ELSE IF \E i \in 2..Len(rows) : rows[i][col] = Head(rows)[col]
         THEN KeepFirst_last(Tail(rows), col, seen)
         ELSE <<Head(rows)>> \o KeepFirst_last(Tail(rows), col, seen)

\* the rows whose key was not seen in an earlier row, in order
RECURSIVE KeepFirst(_, _, _)
KeepFirst(rows, col, seen) ==
    IF rows = <<>> THEN <<>>
    ELSE IF Head(rows)[col] \in seen THEN KeepFirst(Tail(rows), col, seen)
    ELSE <<Head(rows)>> \o KeepFirst(Tail(rows), col, seen \cup {Head(rows)[col]})

remove_duplicates(df, col) ==
    [cols |-> df.cols, rows |-> KeepFirst(df.rows, col, {})]

-----------------------------------------------------------------------------
(* merge_logic.create_complete_time_index *)

DefaultFreq == 30

\* datetime.replace(hour=h, minute=m, second=0)
Replace(d, h, m) == (d \div MinutesPerDay) * MinutesPerDay + h * 60 + m

\* mutant: the end of the range is excluded
date_range_open(start, end, f) ==
    IF end <= start THEN <<>>
    ELSE [k \in 1..((end - start - 1) \div f + 1) |-> start + (k - 1) * f]

\* pd.date_range(start, end, freq): start, start+freq, ... while <= end
date_range(start, end, f) ==
    IF end < start THEN <<>>
    ELSE [k \in 1..((end - start) \div f + 1) |-> start + (k - 1) * f]

\* mutant: the end is taken from date_end as it is, without replace(23, 30)
create_complete_time_index_raw_end(ds, de, f) ==
    date_range(Replace(ds, 0, 0), de, f)

create_complete_time_index(ds, de, f) ==
    LET start_timestamp == Replace(ds, 0, 0)
        end_timestamp == Replace(de, 23, 30)
    IN date_range(start_timestamp, end_timestamp, f)

-----------------------------------------------------------------------------
(* merge_logic.reindex_to_complete_grid *)

DuplicateLabelsMsg == "cannot reindex on an axis with duplicate labels"

\* the columns of df other than col, in order
OtherCols(df, col) == SelectSeq(df.cols, LAMBDA c : c # col)

\* mutant: an inner join, the grid slots without a record are dropped
reindex_inner(df, col, index) ==
    LET kept == SelectSeq(index,
                          LAMBDA t : \E i \in 1..Len(df.rows) : df.rows[i][col] = Ts(t))
    IN [cols |-> <<col>> \o SelectSeq(df.cols, LAMBDA c : c # col),
        rows |-> [k \in 1..Len(kept) |->
                    LET i == CHOOSE i \in 1..Len(df.rows) : df.rows[i][col] = Ts(kept[k])
                    IN [c \in Range(df.cols) |-> df.rows[i][c]]]]

\* mutant: reindex(method='ffill'), an empty slot takes the last record at or before it
reindex_ffill(df, col, index) ==
    LET Before(t) == {i \in 1..Len(df.rows) :
                        df.rows[i][col].kind = "ts" /\ df.rows[i][col].v <= t}
        Last(t) == CHOOSE i \in Before(t) :
                      \A j \in Before(t) : df.rows[j][col].v <= df.rows[i][col].v
    IN [cols |-> <<col>> \o SelectSeq(df.cols, LAMBDA c : c # col),
        rows |-> [k \in 1..Len(index) |->
                    [c \in Range(df.cols) |->
                       IF c = col THEN Ts(index[k])
                       ELSE IF Before(index[k]) = {} THEN NaN
                       ELSE df.rows[Last(index[k])][c]]]]

\* mutant: a record is put into the slot its timestamp falls in
reindex_floor(df, col, index) ==
    LET others == Range(OtherCols(df, col))
        Hits(t) == {i \in 1..Len(df.rows) :
                      /\ df.rows[i][col].kind = "ts"
                      /\ t <= df.rows[i][col].v
                      /\ df.rows[i][col].v < t + DefaultFreq}
        Row(t) == [c \in others \cup {col} |->
                     IF c = col THEN Ts(t)
                     ELSE IF Hits(t) = {} THEN NaN
                     ELSE df.rows[CHOOSE i \in Hits(t) : TRUE][c]]
    IN [cols |-> <<col>> \o OtherCols(df, col),
        rows |-> [k \in 1..Len(index) |-> Row(index[k])]]

\* df.set_index(col).reindex(index).reset_index().rename(columns={'index': col})
reindex(df, col, index) ==
    LET others == Range(OtherCols(df, col))
        Hits(t) == {i \in 1..Len(df.rows) : df.rows[i][col] = Ts(t)}
        Row(t) == [c \in others \cup {col} |->
                     IF c = col THEN Ts(t)
                     ELSE IF Hits(t) = {} THEN NaN
                     ELSE df.rows[CHOOSE i \in Hits(t) : TRUE][c]]
    IN [cols |-> <<col>> \o OtherCols(df, col),
        rows |-> [k \in 1..Len(index) |-> Row(index[k])]]

HasDuplicateLabels(df, col) ==
    \E i, j \in 1..Len(df.rows) : i # j /\ df.rows[i][col] = df.rows[j][col]

reindex_to_complete_grid(df, col, ds, de) ==
    IF col \notin Range(df.cols) THEN [err |-> MissingColMsg, val |-> EmptyFrame]
    ELSE IF HasDuplicateLabels(df, col)
         THEN [err |-> DuplicateLabelsMsg, val |-> EmptyFrame]
    ELSE [err |-> NoError,
          val |-> reindex(df, col, create_complete_time_index(ds, de, DefaultFreq))]

-----------------------------------------------------------------------------
(* merge_logic.get_merge_summary *)

\* a quotient num / den, kept exact
Ratio(n, d) == [num |-> n, den |-> d]

NoSummary ==
    [total_rows |-> 0, expected_rows |-> 0, missing_timestamps |-> 0,
     data_coverage |-> Ratio(0, 1), timestamp_column |-> NoCol,
     date_range |-> <<0, 0>>]

\* mutant: a row counts as missing as soon as one data column is null
get_merge_summary_any_null(df, col, ds, de) ==
    LET expected_rows == Len(create_complete_time_index(ds, de, DefaultFreq))
        actual_rows == Len(df.rows)
        data_cols == Range(SelectSeq(df.cols, LAMBDA c : c # col))
        missing_timestamps ==
            Cardinality({i \in 1..Len(df.rows) :
                           \E c \in data_cols : isnull(df.rows[i][c])})
    IN [total_rows |-> actual_rows,
        expected_rows |-> expected_rows,
        missing_timestamps |-> missing_timestamps,
        data_coverage |-> Ratio((actual_rows - missing_timestamps) * 100, expected_rows),
        timestamp_column |-> col,
        date_range |-> <<ds \div MinutesPerDay, de \div MinutesPerDay>>]

get_merge_summary(df, col, ds, de) ==
    LET index == create_complete_time_index(ds, de, DefaultFreq)
        expected_rows == Len(index)
        actual_rows == Len(df.rows)
        data_cols == Range(SelectSeq(df.cols, LAMBDA c : c # col))
        \* df[data_cols].isnull().all(axis=1).sum()
        missing_timestamps ==
            Cardinality({i \in 1..Len(df.rows) :
                           \A c \in data_cols : isnull(df.rows[i][c])})
    IN [total_rows |-> actual_rows,
        expected_rows |-> expected_rows,
        missing_timestamps |-> missing_timestamps,
        \* (actual_rows - missing_timestamps) / expected_rows * 100
        data_coverage |-> Ratio((actual_rows - missing_timestamps) * 100, expected_rows),
        timestamp_column |-> col,
        \* the two dates as strftime('%Y-%m-%d') prints them: the days
        date_range |-> <<ds \div MinutesPerDay, de \div MinutesPerDay>>]

-----------------------------------------------------------------------------
(* Inputs *)

SchemaFull == <<"TIMESTAMP", "RECORD", "value">>
SchemaNoTs == <<"RECORD", "value">>

LastSlot == DayStart(MaxDay) + 23 * 60 + 30
OffGrid == 45

\* timestamps of the input rows: the first slot of day 0, an off-grid time
\* and the last slot of the last day
TsPool == {0, OffGrid, LastSlot}

Payloads == {[r |-> Num(1), v |-> NaN], [r |-> Num(2), v |-> Num(5)]}

RowsOf(schema) ==
    IF schema = SchemaFull
    THEN {[c \in Range(SchemaFull) |->
             IF c = "TIMESTAMP" THEN Ts(t) ELSE IF c = "RECORD" THEN p.r ELSE p.v] :
             t \in TsPool, p \in Payloads}
    ELSE {[c \in Range(SchemaNoTs) |-> IF c = "RECORD" THEN p.r ELSE p.v] :
             p \in Payloads}

RECURSIVE RowSeqs(_, _)
RowSeqs(pool, n) ==
    IF n = 0 THEN {<<>>}
    ELSE {<<>>} \cup {<<r>> \o s : r \in pool, s \in RowSeqs(pool, n - 1)}

\* the frames of at most n rows
Frames(n) ==
    {[cols |-> sch, rows |-> rs] : sch \in {SchemaFull},
                                   rs \in RowSeqs(RowsOf(SchemaFull), n)}
    \cup
    {[cols |-> sch, rows |-> rs] : sch \in {SchemaNoTs},
                                   rs \in RowSeqs(RowsOf(SchemaNoTs), n)}

\* the lists of at most k frames holding at most n rows in all
RECURSIVE FrameLists(_, _)
FrameLists(k, n) ==
    IF k = 0 THEN {<<>>}
    ELSE {<<>>} \cup
         UNION {{<<f>> \o l : l \in FrameLists(k - 1, n - Len(f.rows))} : f \in Frames(n)}

Dates == {DayStart(d) : d \in 0..MaxDay}

-----------------------------------------------------------------------------
(* merge_logic.merge_daily_data, one action per step *)

NoFramesMsg == "No dataframes provided for merging"

\* the wet-bulb solver is not running
WbIdle ==
    /\ T = NaN /\ RH = NaN /\ SP = NaN /\ ea = NaN /\ Td = NaN /\ Tw = NaN
    /\ iter = 0 /\ evals = 0 /\ wet_bulb = NaN
    /\ args = <<>> /\ result = NaN /\ fs = {}

Init ==
    /\ dataframes \in FrameLists(MaxSeries, MaxRows)
    /\ date_start \in Dates
    /\ date_end \in Dates
    /\ freq = DefaultFreq
    /\ pc = "start"
    /\ timestamp_col = NoCol
    /\ merged_df = EmptyFrame
    /\ err = NoError
    /\ trace = <<>>
    /\ complete_index = <<>>
    /\ summary = NoSummary
    /\ WbIdle

Raise(msg) ==
    /\ err' = msg
    /\ pc' = "done"

\* mutant: no empty check of its own, the empty list reaches concatenate_dataframes
MergeBegin_unchecked ==
    /\ pc = "start"
    /\ IF dataframes = <<>>
       THEN /\ trace' = <<"merge_daily_data">>
            /\ pc' = "concatenate"
            /\ UNCHANGED <<timestamp_col, err>>
       ELSE /\ trace' = <<"merge_daily_data", "get_timestamp_column_info">>
            /\ timestamp_col' = get_timestamp_column_info(dataframes[1].cols).val
            /\ pc' = "concatenate"
            /\ UNCHANGED err
    /\ UNCHANGED <<dataframes, date_start, date_end, freq, merged_df,
                   complete_index, summary, wbVars, callVars>>

\* lines 109-113: the empty check, then the timestamp column of the first frame
MergeBegin ==
    /\ pc = "start"
    /\ IF dataframes = <<>>
       THEN /\ Raise(NoFramesMsg)
            /\ trace' = <<"merge_daily_data">>
            /\ UNCHANGED timestamp_col
       ELSE LET r == get_timestamp_column_info(dataframes[1].cols) IN
            /\ trace' = <<"merge_daily_data", "get_timestamp_column_info">>
            /\ IF r.err # NoError
               THEN Raise(r.err) /\ UNCHANGED timestamp_col
               ELSE /\ timestamp_col' = r.val
                    /\ pc' = "concatenate"
                    /\ UNCHANGED err
    /\ UNCHANGED <<dataframes, date_start, date_end, freq, merged_df,
                   complete_index, summary, wbVars, callVars>>

\* line 118
MergeConcatenate ==
    /\ pc = "concatenate"
    /\ trace' = Append(trace, "concatenate_dataframes")
    /\ LET r == concatenate_dataframes(dataframes) IN
       IF r.err # NoError
       THEN Raise(r.err) /\ UNCHANGED merged_df
       ELSE merged_df' = r.val /\ pc' = "sort" /\ UNCHANGED err
    /\ UNCHANGED <<dataframes, date_start, date_end, freq, timestamp_col,
                   complete_index, summary, wbVars, callVars>>

\* line 121
MergeSort ==
    /\ pc = "sort"
    /\ trace' = Append(trace, "sort_by_timestamp")
    /\ IF sort_by_timestamp_raises(merged_df, timestamp_col)
       THEN Raise(MissingColMsg) /\ UNCHANGED merged_df
       ELSE /\ merged_df' \in sort_by_timestamp(merged_df, timestamp_col)
            /\ pc' = "dedup"
            /\ UNCHANGED err
    /\ UNCHANGED <<dataframes, date_start, date_end, freq, timestamp_col,
                   complete_index, summary, wbVars, callVars>>

\* mutant: the duplicates step is left out
MergeRemoveDuplicates_skipped ==
    /\ pc = "dedup"
    /\ pc' = "reindex"
    /\ UNCHANGED <<dataframes, date_start, date_end, freq, timestamp_col, err, trace,
                   merged_df, complete_index, summary, wbVars, callVars>>

\* line 124
MergeRemoveDuplicates ==
    /\ pc = "dedup"
    /\ trace' = Append(trace, "remove_duplicates")
    /\ merged_df' = remove_duplicates(merged_df, timestamp_col)
    /\ pc' = "reindex"
    /\ UNCHANGED <<dataframes, date_start, date_end, freq, timestamp_col, err,
                   complete_index, summary, wbVars, callVars>>

\* lines 127-130
MergeReindex ==
    /\ pc = "reindex"
    /\ LET r == reindex_to_complete_grid(merged_df, timestamp_col, date_start, date_end) IN
       IF r.err # NoError
       THEN /\ Raise(r.err)
            /\ trace' = Append(trace, "reindex_to_complete_grid")
            /\ UNCHANGED merged_df
       ELSE /\ merged_df' = r.val
            /\ trace' = trace \o <<"reindex_to_complete_grid", "create_complete_time_index">>
            /\ pc' = "done"
            /\ UNCHANGED err
    /\ UNCHANGED <<dataframes, date_start, date_end, freq, timestamp_col,
                   complete_index, summary, wbVars, callVars>>

\* a direct call of concatenate_dataframes(dataframes)
CallConcatenate ==
    /\ pc = "start"
    /\ trace' = <<"concatenate_dataframes">>
    /\ LET r == concatenate_dataframes(dataframes) IN
       IF r.err # NoError
       THEN Raise(r.err) /\ UNCHANGED merged_df
       ELSE merged_df' = r.val /\ pc' = "done" /\ UNCHANGED err
    /\ UNCHANGED <<dataframes, date_start, date_end, freq, timestamp_col,
                   complete_index, summary, wbVars, callVars>>

\* a direct call of sort_by_timestamp(dataframes[k], 'TIMESTAMP'): the arguments
CallSortByTimestamp ==
    /\ pc = "start"
    /\ \E k \in 1..Len(dataframes) :
          /\ merged_df' = dataframes[k]
          /\ timestamp_col' = "TIMESTAMP"
    /\ trace' = <<"sort_by_timestamp">>
    /\ pc' = "sort_direct"
    /\ UNCHANGED <<dataframes, date_start, date_end, freq, err,
                   complete_index, summary, wbVars, callVars>>

\* sort_by_timestamp, lines 26-32, on the arguments of the direct call
SortDirect ==
    /\ pc = "sort_direct"
    /\ IF sort_by_timestamp_raises(merged_df, timestamp_col)
       THEN Raise(MissingColMsg) /\ UNCHANGED merged_df
       ELSE /\ merged_df' \in sort_by_timestamp(merged_df, timestamp_col)
            /\ pc' = "done"
            /\ UNCHANGED err
    /\ UNCHANGED <<dataframes, date_start, date_end, freq, timestamp_col, trace,
                   complete_index, summary, wbVars, callVars>>

Next ==
    \/ MergeBegin
    \/ MergeConcatenate
    \/ MergeSort
    \/ MergeRemoveDuplicates
    \/ MergeReindex
    \/ CallConcatenate
    \/ CallSortByTimestamp
    \/ SortDirect

Spec == Init /\ [][Next]_vars

-----------------------------------------------------------------------------
(* Fixed-point arithmetic for meteorology.py                                *)
(* A float x is held as the integer floor(x * Scale), six decimals.  Every  *)
(* intermediate value stays below 2^31: products are split into limbs and   *)
(* associated so that no factor pair exceeds the range.  The arithmetic is  *)
(* written as functions, whose arguments are values.                        *)

Scale == 1000 * 1000
Limb == 10 * 10 * 10

Fx(units, millionths) == units * Scale + millionths

Abs(x) == IF x < 0 THEN -x ELSE x

\* a * b
Mul[a \in Int, b \in Int] ==
    LET ah == a \div Limb
        al == a % Limb
        bh == b \div Limb
        bl == b % Limb
    IN ah * bh + (ah * bl) \div Limb + (al * bh) \div Limb + (al * bl) \div Scale

\* the first n decimals of r / b, for 0 <= r < b
Frac[r \in Nat, b \in Nat, n \in Nat] ==
    IF n = 0 THEN 0
    ELSE ((r * 10) \div b) * (10 ^ (n - 1)) + Frac[(r * 10) % b, b, n - 1]

\* a / b, b # 0
Div[a \in Int, b \in Int] ==
    LET n == IF b < 0 THEN -a ELSE a
        d == Abs(b)
    IN (n \div d) * Scale + Frac[n % d, d, 6]

Ln2 == 693147

\* 2 * atanh(z) = 2 * (z + z^3/3 + ... + z^13/13), for 0 <= z <= 1/3
AtanhSeries[zk \in Int, z2 \in Int, k \in Nat] ==
    IF k > 13 THEN 0 ELSE zk \div k + AtanhSeries[Mul[zk, z2], z2, k + 2]

\* m halved or doubled into [1, 2), with the exponent
LnReduce[m \in Nat, k \in Int] ==
    IF m >= 2 * Scale THEN LnReduce[m \div 2, k + 1]
    ELSE IF m < Scale THEN LnReduce[m * 2, k - 1]
    ELSE [m |-> m, k |-> k]

\* np.log(x), x > 0
Ln[x \in Nat] ==
    LET r == LnReduce[x, 0]
        z == Div[r.m - Scale, r.m + Scale]
    IN r.k * Ln2 + 2 * AtanhSeries[z, Mul[z, z], 1]

-----------------------------------------------------------------------------
(* meteorology.calculate_saturated_vapor_pressure                           *)
(* The polynomial is evaluated in u = T / 100 with the coefficients         *)
(* A_k * 100^k and nested multiplication: the same polynomial, with every   *)
(* term inside six decimals.                                                *)

A0 == 6107800
A1 == 44365185
A2 == 142894581
A3 == 265064847
A4 == 303124040
A5 == 203408095
A6 == 61368209

\* on numbers: (A0 + A1*T + ... + A6*T**6) * 0.1
Esat[t \in Int] ==
    LET u == t \div 100 IN
    (A0 + Mul[u, A1 + Mul[u, A2 + Mul[u, A3 + Mul[u, A4 + Mul[u, A5 + Mul[u, A6]]]]]])
        \div 10

\* mutant: a missing temperature is read as 0
calculate_saturated_vapor_pressure_zero_fill(t) ==
    IF isnull(t) THEN Num(Esat[0]) ELSE Num(Esat[t.v])

\* float arithmetic carries NaN through
calculate_saturated_vapor_pressure(t) ==
    IF isnull(t) THEN NaN ELSE Num(Esat[t.v])

(* meteorology.calculate_vapor_pressure: RH * esat / 100 *)
calculate_vapor_pressure(rh, esat) ==
    IF isnull(rh) \/ isnull(esat) THEN NaN ELSE Num(Mul[rh.v, esat.v] \div 100)

(* meteorology.calculate_dewpoint *)
TetensE0 == 610780
TetensB == 241880000
TetensA == 17558000

calculate_dewpoint(e) ==
    IF isnull(e) \/ e.v <= 0 THEN NaN
    ELSE LET ln_ea == Ln[Div[e.v, TetensE0]]
         IN Num(Div[Mul[TetensB, ln_ea], TetensA - ln_ea])

(* meteorology.calculate_wet_bulb_vapor_pressure, on numbers *)
PsyCoeff == 660
PsySlope == 1150

calculate_wet_bulb_vapor_pressure(t, tw, sp) ==
    LET eswt == Esat[tw]
    IN eswt - Mul[Mul[Mul[PsyCoeff, sp], Scale + Mul[PsySlope, tw]], t - tw]

(* meteorology.calculate_wet_bulb_temperature                               *)
max_iterations == 50
tolerance == 10000
AdjustmentFactor == 500000
BoundMargin == 5 * Scale

\* lines 105-115: the value returned before the loop, or the first guess
wet_bulb_entry(t, e, sp) ==
    IF isnull(t) \/ isnull(e) \/ isnull(sp)
    THEN [exit |-> "missing input", Td |-> NaN]
    ELSE LET dew == calculate_dewpoint(e)
         IN IF isnull(dew) THEN [exit |-> "missing dewpoint", Td |-> dew]
            ELSE [exit |-> "continue", Td |-> dew]

\* the loop never stops on its count
wet_bulb_iteration_uncapped(t, e, sp, td, tw, i) ==
    LET ewt == calculate_wet_bulb_vapor_pressure(t, tw, sp)
        diff == ewt - e
        Tw_new == tw - Mul[diff, AdjustmentFactor]
    IN IF Abs(Tw_new - tw) < tolerance THEN [exit |-> "converged", Tw |-> Tw_new]
       ELSE IF Tw_new < td - BoundMargin \/ Tw_new > t + BoundMargin
            THEN [exit |-> "bounds", Tw |-> Tw_new]
       ELSE [exit |-> "continue", Tw |-> Tw_new]

\* mutant: the loop goes on with an estimate outside the bounds
wet_bulb_iteration_unbounded(t, e, sp, td, tw, i) ==
    LET ewt == calculate_wet_bulb_vapor_pressure(t, tw, sp)
        diff == ewt - e
        Tw_new == tw - Mul[diff, AdjustmentFactor]
    IN IF Abs(Tw_new - tw) < tolerance THEN [exit |-> "converged", Tw |-> Tw_new]
       ELSE IF i + 1 >= max_iterations THEN [exit |-> "exhausted", Tw |-> Tw_new]
       ELSE [exit |-> "continue", Tw |-> Tw_new]

\* mutant: the bounds exit hands back the estimate it had before the step
wet_bulb_iteration_keeps_in_bounds(t, e, sp, td, tw, i) ==
    LET ewt == calculate_wet_bulb_vapor_pressure(t, tw, sp)
        diff == ewt - e
        Tw_new == tw - Mul[diff, AdjustmentFactor]
    IN IF Abs(Tw_new - tw) < tolerance THEN [exit |-> "converged", Tw |-> Tw_new]
       ELSE IF Tw_new < td - BoundMargin \/ Tw_new > t + BoundMargin
            THEN [exit |-> "bounds", Tw |-> tw]
       ELSE IF i + 1 >= max_iterations THEN [exit |-> "exhausted", Tw |-> Tw_new]
       ELSE [exit |-> "continue", Tw |-> Tw_new]

\* lines 117-140: pass i of the loop, on numbers
wet_bulb_iteration(t, e, sp, td, tw, i) ==
    LET ewt == calculate_wet_bulb_vapor_pressure(t, tw, sp)
        diff == ewt - e
        Tw_new == tw - Mul[diff, AdjustmentFactor]
    IN IF Abs(Tw_new - tw) < tolerance THEN [exit |-> "converged", Tw |-> Tw_new]
       ELSE IF Tw_new < td - BoundMargin \/ Tw_new > t + BoundMargin
            THEN [exit |-> "bounds", Tw |-> Tw_new]
       ELSE IF i + 1 >= max_iterations THEN [exit |-> "exhausted", Tw |-> Tw_new]
       ELSE [exit |-> "continue", Tw |-> Tw_new]

\* lines 117-140 run to the return: the value returned from pass i onwards
wet_bulb_loop[t \in Int, e \in Int, sp \in Int, td \in Int, tw \in Int, i \in Nat] ==
    LET r == wet_bulb_iteration(t, e, sp, td, tw, i)
    IN IF r.exit = "continue" THEN wet_bulb_loop[t, e, sp, td, r.Tw, i + 1] ELSE r.Tw

\* the whole call, on cells
calculate_wet_bulb_temperature(t, e, sp) ==
    LET r == wet_bulb_entry(t, e, sp)
    IN IF r.exit # "continue" THEN NaN
       ELSE Num(wet_bulb_loop[t.v, e.v, sp.v, r.Td.v, r.Td.v, 0])

(* meteorology.calculate_wbgt *)
WeightBlackGlobe == 200000
WeightWetBulb == 700000
WeightDryBulb == 100000

\* the weights of the black globe and the wet bulb exchanged
calculate_wbgt_swapped(black_globe_temp, wet_bulb_temp, dry_bulb_temp) ==
    IF isnull(black_globe_temp) \/ isnull(wet_bulb_temp) \/ isnull(dry_bulb_temp)
    THEN NaN
    ELSE Num(Mul[WeightWetBulb, black_globe_temp.v] + Mul[WeightBlackGlobe, wet_bulb_temp.v]
             + Mul[WeightDryBulb, dry_bulb_temp.v])

\* a missing input counts as 0
calculate_wbgt_zero_fill(black_globe_temp, wet_bulb_temp, dry_bulb_temp) ==
    Num(Mul[WeightBlackGlobe, black_globe_temp.v] + Mul[WeightWetBulb, wet_bulb_temp.v]
        + Mul[WeightDryBulb, dry_bulb_temp.v])

calculate_wbgt(black_globe_temp, wet_bulb_temp, dry_bulb_temp) ==
    IF isnull(black_globe_temp) \/ isnull(wet_bulb_temp) \/ isnull(dry_bulb_temp)
    THEN NaN
    ELSE Num(Mul[WeightBlackGlobe, black_globe_temp.v] + Mul[WeightWetBulb, wet_bulb_temp.v]
             + Mul[WeightDryBulb, dry_bulb_temp.v])

(* meteorology.add_meteorological_calculations                              *)
RequiredColumns == <<"AirTC_Avg", "RH_Avg", "P_Air_Avg", "BGTemp_C_Avg">>
DerivedColumns == <<"esat_kPa", "ea_kPa", "dewpoint_C", "wet_bulb_C", "WBGT_C">>
KeyErrorMsg == "KeyError"
MbarToKPa == 100000

\* df[name] = values: an existing column is replaced where it stands, a new
\* one is appended
SetColumn(df, name, values) ==
    [cols |-> IF name \in Range(df.cols) THEN df.cols ELSE Append(df.cols, name),
     rows |-> [i \in 1..Len(df.rows) |->
                  [c \in (DOMAIN df.rows[i]) \cup {name} |->
                      IF c = name THEN values[i] ELSE df.rows[i][c]]]]

\* line 187: SP = P * 0.1, a Series of its own
PressureKPa(row) ==
    IF isnull(row["P_Air_Avg"]) THEN NaN ELSE Num(Mul[row["P_Air_Avg"].v, MbarToKPa])

\* the standard pressure stands in for a missing one
wet_bulb_of_row_default_pressure(row) ==
    calculate_wet_bulb_temperature(
        row["AirTC_Avg"], row["ea_kPa"],
        IF isnull(row["P_Air_Avg"]) THEN Num(Fx(101, 300000)) ELSE PressureKPa(row))

\* lines 200-204: the lambda applied to a row
wet_bulb_of_row(row) ==
    calculate_wet_bulb_temperature(row["AirTC_Avg"], row["ea_kPa"], PressureKPa(row))

\* the dry bulb and the black globe passed in each other's place
wbgt_of_row_swapped(row) ==
    calculate_wbgt(row["AirTC_Avg"], row["wet_bulb_C"], row["BGTemp_C_Avg"])

\* lines 207-211: the lambda applied to a row
wbgt_of_row(row) ==
    calculate_wbgt(row["BGTemp_C_Avg"], row["wet_bulb_C"], row["AirTC_Avg"])

\* lines 165-227 as one call: the exception raised, or the frame returned
add_meteorological_calculations(df) ==
    IF \E c \in Range(RequiredColumns) : c \notin Range(df.cols)
    THEN [err |-> KeyErrorMsg, val |-> EmptyFrame]
    ELSE LET n == Len(df.rows)
             d1 == SetColumn(df, "esat_kPa",
                      [i \in 1..n |-> calculate_saturated_vapor_pressure(df.rows[i]["AirTC_Avg"])])
             d2 == SetColumn(d1, "ea_kPa",
                      [i \in 1..n |-> calculate_vapor_pressure(d1.rows[i]["RH_Avg"],
                                                               d1.rows[i]["esat_kPa"])])
             d3 == SetColumn(d2, "dewpoint_C",
                      [i \in 1..n |-> calculate_dewpoint(d2.rows[i]["ea_kPa"])])
             d4 == SetColumn(d3, "wet_bulb_C", [i \in 1..n |-> wet_bulb_of_row(d3.rows[i])])
             d5 == SetColumn(d4, "WBGT_C", [i \in 1..n |-> wbgt_of_row(d4.rows[i])])
         IN [err |-> NoError, val |-> d5]

(* merge_logic.merge_daily_data as one call: the set of its possible          *)
(* outcomes, one per order the sort may leave equal timestamps in             *)
merge_daily_data(dfs, ds, de) ==
    IF dfs = <<>> THEN {[err |-> "No dataframes provided for merging", val |-> EmptyFrame]}
    ELSE LET c == get_timestamp_column_info(dfs[1].cols) IN
         IF c.err # NoError THEN {[err |-> c.err, val |-> EmptyFrame]}
         ELSE LET cat == concatenate_dataframes(dfs) IN
              IF cat.err # NoError THEN {[err |-> cat.err, val |-> EmptyFrame]}
              ELSE IF sort_by_timestamp_raises(cat.val, c.val)
                   THEN {[err |-> MissingColMsg, val |-> EmptyFrame]}
              ELSE {reindex_to_complete_grid(remove_duplicates(sorted, c.val), c.val, ds, de) :
                       sorted \in sort_by_timestamp(cat.val, c.val)}

-----------------------------------------------------------------------------
(* Properties of merge_daily_data *)

MergeDone == pc = "done" /\ trace # <<>> /\ trace[1] = "merge_daily_data"
MergeOk == MergeDone /\ err = NoError

\* the input records in concatenation order, widened to the merged columns
Concatenated == pd_concat(dataframes).rows

\* the positions in cat, the concatenated input, of the records whose
\* timestamp is t
Candidates(cat, t) ==
    {i \in 1..Len(cat) : cat[i][timestamp_col] = Ts(t)}

DaysInRange == (date_end - date_start) \div MinutesPerDay + 1
SlotTime(k) == date_start + 30 * (k - 1)

\* C1: for a non-empty input list and rangeStart <= rangeEnd, merge succeeds
\* and the timestamps of its output are exactly the canonical grid: 48 per
\* day, one record per slot, strictly ascending, from rangeStart 00:00 to
\* rangeEnd 23:30, whatever the input records are.
C1_OutputIsCanonicalGrid ==
    (MergeDone /\ dataframes # <<>> /\ date_start <= date_end) =>
        /\ err = NoError
        /\ Len(merged_df.rows) = 48 * DaysInRange
        /\ \A k \in 1..Len(merged_df.rows) :
              merged_df.rows[k][timestamp_col] = Ts(SlotTime(k))
        /\ \A k \in 1..(Len(merged_df.rows) - 1) :
              merged_df.rows[k][timestamp_col].v < merged_df.rows[k + 1][timestamp_col].v
        /\ merged_df.rows[1][timestamp_col] = Ts(date_start)
        /\ merged_df.rows[Len(merged_df.rows)][timestamp_col] = Ts(date_end + 23 * 60 + 30)

\* a two-day merge has ended whose input holds two records that are out of
\* order or share a timestamp, and an off-grid record
C1_Witness ==
    /\ MergeOk
    /\ date_start < date_end
    /\ Len(merged_df.rows) = 96
    /\ LET cat == Concatenated IN
       /\ \E i, j \in 1..Len(cat) :
             /\ i < j
             /\ cat[i][timestamp_col].kind = "ts"
             /\ cat[j][timestamp_col].kind = "ts"
             /\ cat[i][timestamp_col].v >= cat[j][timestamp_col].v
       /\ \E i \in 1..Len(cat) : cat[i][timestamp_col] = Ts(OffGrid)

\* C2: first-wins through merge: at every grid slot for which the inputs hold
\* a record, the merged record is the earliest such record in concatenation
\* order, field for field.
C2_FirstWinsThroughMerge ==
    MergeOk =>
        LET cat == Concatenated IN
        \A k \in 1..Len(merged_df.rows) :
            LET cands == Candidates(cat, SlotTime(k)) IN
            cands # {} =>
                merged_df.rows[k] = cat[CHOOSE i \in cands : \A j \in cands : i <= j]

\* C3: after merge a grid slot that matches no input record carries the grid
\* timestamp and has every other field missing.
C3_UnmatchedSlotsMissing ==
    MergeOk =>
        LET cat == Concatenated IN
        \A k \in 1..Len(merged_df.rows) :
            Candidates(cat, SlotTime(k)) = {} =>
                /\ merged_df.rows[k][timestamp_col] = Ts(SlotTime(k))
                /\ \A c \in Range(merged_df.cols) \ {timestamp_col} :
                      isnull(merged_df.rows[k][c])

\* a merged series whose first slot holds a value and whose second is empty
C3_Witness ==
    /\ MergeOk
    /\ Len(merged_df.rows) >= 2
    /\ Candidates(Concatenated, SlotTime(1)) # {}
    /\ \E c \in Range(merged_df.cols) \ {timestamp_col} : ~isnull(merged_df.rows[1][c])
    /\ Candidates(Concatenated, SlotTime(2)) = {}
    /\ \A c \in Range(merged_df.cols) \ {timestamp_col} : isnull(merged_df.rows[2][c])

ConcatDone == pc = "done" /\ trace = <<"concatenate_dataframes">>

\* C6: merge of an empty list raises "No dataframes provided" before the
\* timestamp-column lookup, the concatenation, the sort or the grid; a direct
\* concatenate of an empty list raises too.
C6_EmptyInputRaises ==
    /\ (dataframes = <<>> /\ trace # <<>> /\ trace[1] = "merge_daily_data") =>
          /\ pc = "done"
          /\ err = NoFramesMsg
          /\ trace = <<"merge_daily_data">>
          /\ timestamp_col = NoCol
          /\ merged_df = EmptyFrame
    /\ (ConcatDone /\ dataframes = <<>>) =>
          (err = NoConcatMsg /\ merged_df = EmptyFrame)

\* merge of the empty list has ended, for a valid range
C6_Witness ==
    MergeDone /\ dataframes = <<>> /\ err = NoFramesMsg /\ date_start <= date_end

SortCallDone == pc = "done" /\ trace = <<"sort_by_timestamp">>

\* some input frame lacks the timestamp column merge chose from the first one
SomeFrameLacksField ==
    \E k \in 1..Len(dataframes) : timestamp_col \notin Range(dataframes[k].cols)

-----------------------------------------------------------------------------
(* create_complete_time_index called on its own *)

\* datetimes with and without a time of day
GridDates == {DayStart(d) + m : d \in 0..MaxGridDay, m \in {0, 13 * 60 + 15}}

\* minutes per slot: '15T', '20T', '30T', '45T', '50T', '60T', '2H', 'D'
Freqs == {15, 20, 30, 45, 50, 60, 120, 1440}

InitGrid ==
    /\ dataframes = <<>>
    /\ date_start \in GridDates
    /\ date_end \in GridDates
    /\ freq \in Freqs
    /\ pc = "start"
    /\ timestamp_col = NoCol
    /\ merged_df = EmptyFrame
    /\ err = NoError
    /\ trace = <<>>
    /\ complete_index = <<>>
    /\ summary = NoSummary
    /\ WbIdle

CallCreateCompleteTimeIndex ==
    /\ pc = "start"
    /\ complete_index' = create_complete_time_index(date_start, date_end, freq)
    /\ trace' = <<"create_complete_time_index">>
    /\ pc' = "done"
    /\ UNCHANGED <<dataframes, date_start, date_end, freq, timestamp_col, merged_df,
                   err, summary, wbVars, callVars>>

NextGrid == CallCreateCompleteTimeIndex

SpecGrid == InitGrid /\ [][NextGrid]_vars

GridDone == pc = "done" /\ trace = <<"create_complete_time_index">>

DayOf(d) == d \div MinutesPerDay
GridDays == DayOf(date_end) - DayOf(date_start) + 1

\* C4: with the 30-minute interval the grid of an N-day range has 48*N
\* timestamps, the first rangeStart 00:00, the last rangeEnd 23:30,
\* consecutive ones 30 minutes apart; it is fixed by the two dates alone.
C4_Grid30Min ==
    (GridDone /\ freq = 30 /\ GridDays >= 1) =>
        /\ Len(complete_index) = 48 * GridDays
        /\ complete_index[1] = DayOf(date_start) * 1440
        /\ complete_index[Len(complete_index)] = DayOf(date_end) * 1440 + 23 * 60 + 30
        /\ \A k \in 1..(Len(complete_index) - 1) :
              complete_index[k + 1] - complete_index[k] = 30

\* the 30-minute grid of a three-day range given with times of day
C4_Witness ==
    /\ GridDone /\ freq = 30
    /\ GridDays = 3
    /\ date_start % MinutesPerDay # 0
    /\ date_end % MinutesPerDay # 0
    /\ Len(complete_index) = 144

DividesDay(f) == MinutesPerDay % f = 0

\* C5 as claimed: for every interval that divides 24h the grid has
\* daysInRange * (24h / interval) slots and ends at the last slot before the
\* midnight that follows rangeEnd.
C5_GridAnyInterval ==
    (GridDone /\ DividesDay(freq) /\ GridDays >= 1) =>
        /\ Len(complete_index) = GridDays * (MinutesPerDay \div freq)
        /\ complete_index[1] = DayOf(date_start) * 1440
        /\ complete_index[Len(complete_index)] = (DayOf(date_end) + 1) * 1440 - freq

\* C5 as amended: that holds for the intervals of at least 30 minutes that
\* divide 24h; for every interval the grid starts at rangeStart 00:00, steps
\* by the interval and ends at the last slot at or before rangeEnd 23:30.
C5_GridInterval30OrMore ==
    /\ (GridDone /\ DividesDay(freq) /\ freq >= 30 /\ GridDays >= 1) =>
          /\ Len(complete_index) = GridDays * (MinutesPerDay \div freq)
          /\ complete_index[1] = DayOf(date_start) * 1440
          /\ complete_index[Len(complete_index)] = (DayOf(date_end) + 1) * 1440 - freq
    /\ (GridDone /\ GridDays >= 1) =>
          /\ complete_index[1] = DayOf(date_start) * 1440
          /\ \A k \in 1..(Len(complete_index) - 1) :
                complete_index[k + 1] - complete_index[k] = freq
          /\ complete_index[Len(complete_index)] <= DayOf(date_end) * 1440 + 23 * 60 + 30
          /\ complete_index[Len(complete_index)] + freq > DayOf(date_end) * 1440 + 23 * 60 + 30

\* the hourly grid of a two-day range: 48 slots, the last at 23:00
C5_Witness ==
    /\ GridDone /\ freq = 60
    /\ GridDays = 2
    /\ Len(complete_index) = 48
    /\ complete_index[48] % MinutesPerDay = 23 * 60

-----------------------------------------------------------------------------
(* get_merge_summary called on its own *)

AllNull == [r |-> NaN, v |-> NaN]

SummaryRowsOf(schema) ==
    IF schema = SchemaFull
    THEN {[c \in Range(SchemaFull) |->
             IF c = "TIMESTAMP" THEN Ts(t) ELSE IF c = "RECORD" THEN p.r ELSE p.v] :
             t \in TsPool, p \in Payloads \cup {AllNull}}
    ELSE {[c \in Range(SchemaNoTs) |-> IF c = "RECORD" THEN p.r ELSE p.v] :
             p \in Payloads \cup {AllNull}}

\* the frames of at most n rows, rows without any data among them
SummaryFrames(n) ==
    {[cols |-> sch, rows |-> rs] : sch \in {SchemaFull},
                                   rs \in RowSeqs(SummaryRowsOf(SchemaFull), n)}
    \cup
    {[cols |-> sch, rows |-> rs] : sch \in {SchemaNoTs},
                                   rs \in RowSeqs(SummaryRowsOf(SchemaNoTs), n)}

InitSummary ==
    /\ dataframes \in {<<f>> : f \in SummaryFrames(MaxRows)}
    /\ date_start \in Dates
    /\ date_end \in Dates
    /\ freq = DefaultFreq
    /\ pc = "start"
    /\ timestamp_col = get_timestamp_column_info(dataframes[1].cols).val
    /\ merged_df = dataframes[1]
    /\ err = NoError
    /\ trace = <<>>
    /\ complete_index = <<>>
    /\ summary = NoSummary
    /\ WbIdle

CallGetMergeSummary ==
    /\ pc = "start"
    /\ summary' = get_merge_summary(merged_df, timestamp_col, date_start, date_end)
    /\ trace' = <<"get_merge_summary">>
    /\ pc' = "done"
    /\ UNCHANGED <<dataframes, date_start, date_end, freq, timestamp_col, merged_df,
                   err, complete_index, wbVars, callVars>>

NextSummary == CallGetMergeSummary

SpecSummary == InitSummary /\ [][NextSummary]_vars

SummaryDone == pc = "done" /\ trace = <<"get_merge_summary">>

\* the number of rows of rs in which every field other than col is missing
RECURSIVE CountAllMissing(_, _)
CountAllMissing(rs, col) ==
    IF rs = <<>> THEN 0
    ELSE (IF \A c \in (DOMAIN Head(rs)) \ {col} : Head(rs)[c] = NaN THEN 1 ELSE 0)
         + CountAllMissing(Tail(rs), col)

\* C8: summarize returns totalRows = the number of rows, expectedRows = 48*N
\* for the N-day range, missingRows = the rows whose every non-timestamp
\* field is missing and coveragePercent = (totalRows - missingRows) /
\* expectedRows * 100, and leaves the series as it was.
C8_SummaryFields ==
    (SummaryDone /\ date_start <= date_end) =>
        /\ summary.total_rows = Len(dataframes[1].rows)
        /\ summary.expected_rows = 48 * DaysInRange
        /\ summary.missing_timestamps = CountAllMissing(dataframes[1].rows, timestamp_col)
        /\ summary.data_coverage.den # 0
        /\ summary.data_coverage.num * summary.expected_rows =
              (summary.total_rows - summary.missing_timestamps) * 100
                 * summary.data_coverage.den
        /\ merged_df = dataframes[1]

\* a two-row series, one row with data in one field only and one row with
\* none, summarized over a two-day range
C8_Witness ==
    /\ SummaryDone
    /\ date_start < date_end
    /\ summary.total_rows = 2
    /\ summary.expected_rows = 96
    /\ summary.missing_timestamps = 1
    /\ \E i \in 1..2 : \E c, e \in Range(merged_df.cols) \ {timestamp_col} :
          isnull(merged_df.rows[i][c]) /\ ~isnull(merged_df.rows[i][e])

-----------------------------------------------------------------------------
(* calculate_wet_bulb_temperature on one record, with ea derived from the   *)
(* record's humidity as add_meteorological_calculations derives it.  The    *)
(* loop runs to completion once entered, hence the fairness condition.      *)

TempInputs == {NaN} \cup {Num(Fx(t, 0)) : t \in {-45, 0, 10, 25, 30, 40}}
HumInputs == {NaN} \cup {Num(Fx(r, 0)) : r \in {-5, 0, 20, 50, 80, 100, 150}}
PressureInputs == {NaN, Num(Fx(1, 0)), Num(Fx(70, 0)), Num(Fx(101, 300000))}

InitWetBulb ==
    /\ dataframes = <<>>
    /\ date_start = 0
    /\ date_end = 0
    /\ freq = DefaultFreq
    /\ pc = "start"
    /\ timestamp_col = NoCol
    /\ merged_df = EmptyFrame
    /\ err = NoError
    /\ trace = <<>>
    /\ complete_index = <<>>
    /\ summary = NoSummary
    /\ T \in TempInputs
    /\ RH \in HumInputs
    /\ SP \in PressureInputs
    /\ ea = calculate_vapor_pressure(RH, calculate_saturated_vapor_pressure(T))
    /\ Td = NaN /\ Tw = NaN /\ iter = 0 /\ evals = 0 /\ wet_bulb = NaN
    /\ args = <<>> /\ result = NaN /\ fs = {}

CallWetBulbTemperature ==
    /\ pc = "start"
    /\ LET r == wet_bulb_entry(T, ea, SP)
       IN /\ Td' = r.Td
          /\ IF r.exit = "continue"
             THEN /\ Tw' = r.Td
                  /\ pc' = "loop"
                  /\ trace' = <<"calculate_wet_bulb_temperature">>
                  /\ UNCHANGED wet_bulb
             ELSE /\ wet_bulb' = NaN
                  /\ pc' = "done"
                  /\ trace' = <<"calculate_wet_bulb_temperature", r.exit>>
                  /\ UNCHANGED Tw
    /\ UNCHANGED <<dataframes, date_start, date_end, freq, timestamp_col, merged_df,
                   err, complete_index, summary, T, RH, SP, ea, iter, evals, callVars>>

WetBulbIterate ==
    /\ pc = "loop"
    /\ LET r == wet_bulb_iteration(T.v, ea.v, SP.v, Td.v, Tw.v, iter)
       IN /\ evals' = evals + 1
          /\ IF r.exit = "continue"
             THEN /\ Tw' = Num(r.Tw)
                  /\ iter' = iter + 1
                  /\ UNCHANGED <<pc, trace, wet_bulb>>
             ELSE /\ wet_bulb' = Num(r.Tw)
                  /\ pc' = "done"
                  /\ trace' = Append(trace, r.exit)
                  /\ Tw' = IF r.exit = "converged" THEN Tw ELSE Num(r.Tw)
                  /\ UNCHANGED iter
    /\ UNCHANGED <<dataframes, date_start, date_end, freq, timestamp_col, merged_df,
                   err, complete_index, summary, T, RH, SP, ea, Td, callVars>>

NextWetBulb == CallWetBulbTemperature \/ WetBulbIterate

SpecWetBulb == InitWetBulb /\ [][NextWetBulb]_vars /\ WF_vars(NextWetBulb)

(* Properties of calculate_wet_bulb_temperature *)

WetBulbDone == pc = "done" /\ trace # <<>> /\ trace[1] = "calculate_wet_bulb_temperature"
WetBulbExit == trace[Len(trace)]

WetBulbInputsPresent == ~isnull(T) /\ ~isnull(ea) /\ ~isnull(SP) /\ ea.v > 0

\* C9: the solver never fails and always returns: it evaluates the forward
\* model at most max_iterations (50) times, and whenever air temperature,
\* vapor pressure and air pressure are present and the vapor pressure is
\* positive, what it returns is a number, from one of the three exits.
C9_TerminatesWithEstimate ==
    /\ [](/\ evals <= max_iterations
          /\ err = NoError
          /\ (WetBulbDone /\ WetBulbInputsPresent) =>
                /\ ~isnull(wet_bulb)
                /\ WetBulbExit \in {"converged", "bounds", "exhausted"})
    /\ <>WetBulbDone

\* a call that used all 50 evaluations and returned its last estimate
C9_Witness ==
    /\ WetBulbDone
    /\ WetBulbInputsPresent
    /\ WetBulbExit = "exhausted"
    /\ evals = max_iterations
    /\ ~isnull(wet_bulb)

PhysicallyValid ==
    /\ ~isnull(T) /\ ~isnull(RH) /\ ~isnull(SP)
    /\ RH.v >= 0 /\ RH.v <= Fx(100, 0)
    /\ ea = calculate_vapor_pressure(RH, calculate_saturated_vapor_pressure(T))
    /\ ea.v > 0

\* C10: for relative humidity in [0, 100] and ea = RH * esat(T) / 100 > 0,
\* the returned wet-bulb temperature lies between the dewpoint of ea and the
\* air temperature, within the solver tolerance of 0.01, whichever exit
\* produced it.
C10_BetweenDewpointAndAirTemp ==
    (WetBulbDone /\ PhysicallyValid) =>
        /\ ~isnull(wet_bulb)
        /\ wet_bulb.v >= calculate_dewpoint(ea).v - tolerance
        /\ wet_bulb.v <= T.v + tolerance

-----------------------------------------------------------------------------
(* Direct calls of the five formulas of meteorology.py on scalar arguments, *)
(* each argument a number or missing.                                       *)

FormulaArgs == {NaN} \cup {Num(Fx(x, 0)) : x \in {-1, 0, 20, 25, 30}}

InitFormulas ==
    /\ dataframes = <<>>
    /\ date_start = 0
    /\ date_end = 0
    /\ freq = DefaultFreq
    /\ pc = "start"
    /\ timestamp_col = NoCol
    /\ merged_df = EmptyFrame
    /\ err = NoError
    /\ trace = <<>>
    /\ complete_index = <<>>
    /\ summary = NoSummary
    /\ T = NaN /\ RH = NaN /\ SP = NaN /\ ea = NaN /\ Td = NaN /\ Tw = NaN
    /\ iter = 0 /\ evals = 0 /\ wet_bulb = NaN
    /\ args \in [1..3 -> FormulaArgs]
    /\ result = NaN
    /\ fs = {}

Returns(fn, value) ==
    /\ trace' = <<fn>>
    /\ result' = value
    /\ pc' = "done"
    /\ UNCHANGED <<dataframes, date_start, date_end, freq, timestamp_col, merged_df,
                   err, complete_index, summary, wbVars, args, fs>>

CallSaturatedVaporPressure ==
    /\ pc = "start"
    /\ Returns("calculate_saturated_vapor_pressure",
               calculate_saturated_vapor_pressure(args[1]))

CallVaporPressure ==
    /\ pc = "start"
    /\ Returns("calculate_vapor_pressure", calculate_vapor_pressure(args[1], args[2]))

CallDewpoint ==
    /\ pc = "start"
    /\ Returns("calculate_dewpoint", calculate_dewpoint(args[1]))

CallWetBulb ==
    /\ pc = "start"
    /\ Returns("calculate_wet_bulb_temperature",
               calculate_wet_bulb_temperature(args[1], args[2], args[3]))

CallWbgt ==
    /\ pc = "start"
    /\ Returns("calculate_wbgt", calculate_wbgt(args[1], args[2], args[3]))

NextFormulas ==
    \/ CallSaturatedVaporPressure
    \/ CallVaporPressure
    \/ CallDewpoint
    \/ CallWetBulb
    \/ CallWbgt

SpecFormulas == InitFormulas /\ [][NextFormulas]_vars

(* Properties of the formulas *)

Returned(fn) == pc = "done" /\ trace = <<fn>>

\* C11: a missing operand gives a missing result and no exception: dewpoint
\* for ea missing or ea <= 0; the wet-bulb solver for a missing air
\* temperature, vapor pressure or pressure, or a missing dewpoint of ea; wbgt
\* for any of its three inputs missing; vapor pressure and saturated vapor
\* pressure for a missing operand.
C11_MissingPropagates ==
    /\ err = NoError
    /\ (Returned("calculate_dewpoint") /\ (isnull(args[1]) \/ args[1].v <= 0))
          => isnull(result)
    /\ (Returned("calculate_wet_bulb_temperature")
          /\ (isnull(args[1]) \/ isnull(args[2]) \/ isnull(args[3])
                 \/ isnull(calculate_dewpoint(args[2]))))
          => isnull(result)
    /\ (Returned("calculate_wbgt")
          /\ (isnull(args[1]) \/ isnull(args[2]) \/ isnull(args[3])))
          => isnull(result)
    /\ (Returned("calculate_vapor_pressure") /\ (isnull(args[1]) \/ isnull(args[2])))
          => isnull(result)
    /\ (Returned("calculate_saturated_vapor_pressure") /\ isnull(args[1]))
          => isnull(result)

\* wbgt called with numeric temperatures and a missing wet-bulb temperature
C11_Witness ==
    /\ Returned("calculate_wbgt")
    /\ ~isnull(args[1]) /\ isnull(args[2]) /\ ~isnull(args[3])
    /\ isnull(result)

-----------------------------------------------------------------------------
(* add_meteorological_calculations on a merged frame: one record per slot,  *)
(* each source field a number or missing.                                   *)

MaxRecords == 2

EnrichSchema == <<"TIMESTAMP", "AirTC_Avg", "RH_Avg", "P_Air_Avg", "BGTemp_C_Avg">>
EnrichSchemaNoGlobe == <<"TIMESTAMP", "AirTC_Avg", "RH_Avg", "P_Air_Avg">>

AirTempInputs == {NaN, Num(Fx(25, 0))}
HumidityInputs == {NaN, Num(0), Num(Fx(50, 0))}
PressureMbarInputs == {NaN, Num(Fx(1013, 0))}
GlobeInputs == {NaN, Num(Fx(30, 0))}

EnrichRecord(i, t, rh, p, bg) ==
    [c \in Range(EnrichSchema) |->
        CASE c = "TIMESTAMP" -> Ts((i - 1) * DefaultFreq)
          [] c = "AirTC_Avg" -> t
          [] c = "RH_Avg" -> rh
          [] c = "P_Air_Avg" -> p
          [] OTHER -> bg]

EnrichRecordsAt(i) ==
    {EnrichRecord(i, t, rh, p, bg) :
        t \in AirTempInputs, rh \in HumidityInputs,
        p \in PressureMbarInputs, bg \in GlobeInputs}

RECURSIVE EnrichRecords(_)
EnrichRecords(n) ==
    IF n = 0 THEN {<<>>}
    ELSE {Append(rs, r) : rs \in EnrichRecords(n - 1), r \in EnrichRecordsAt(n)}

Restrict(row, cols) == [c \in Range(cols) |-> row[c]]

EnrichFrames ==
    UNION {{[cols |-> sch, rows |-> [i \in 1..n |-> Restrict(rs[i], sch)]] :
               rs \in EnrichRecords(n), sch \in {EnrichSchema, EnrichSchemaNoGlobe}} :
           n \in 1..MaxRecords}

InitEnrich ==
    /\ dataframes \in {<<f>> : f \in EnrichFrames}
    /\ date_start = 0
    /\ date_end = 0
    /\ freq = DefaultFreq
    /\ pc = "start"
    /\ timestamp_col = "TIMESTAMP"
    /\ merged_df = EmptyFrame
    /\ err = NoError
    /\ trace = <<>>
    /\ complete_index = <<>>
    /\ summary = NoSummary
    /\ WbIdle

\* the pressure column itself is converted to kPa
EnrichBegin_converts_pressure ==
    /\ pc = "start"
    /\ trace' = <<"add_meteorological_calculations">>
    /\ IF \E c \in Range(RequiredColumns) : c \notin Range(dataframes[1].cols)
       THEN Raise(KeyErrorMsg) /\ UNCHANGED merged_df
       ELSE /\ merged_df' = SetColumn(dataframes[1], "P_Air_Avg",
                                [i \in 1..Len(dataframes[1].rows) |->
                                    PressureKPa(dataframes[1].rows[i])])
            /\ pc' = "esat"
            /\ UNCHANGED err
    /\ UNCHANGED <<dataframes, date_start, date_end, freq, timestamp_col,
                   complete_index, summary, wbVars, callVars>>

\* lines 175-187: the copy and the four source columns
EnrichBegin ==
    /\ pc = "start"
    /\ trace' = <<"add_meteorological_calculations">>
    /\ IF \E c \in Range(RequiredColumns) : c \notin Range(dataframes[1].cols)
       THEN Raise(KeyErrorMsg) /\ UNCHANGED merged_df
       ELSE merged_df' = dataframes[1] /\ pc' = "esat" /\ UNCHANGED err
    /\ UNCHANGED <<dataframes, date_start, date_end, freq, timestamp_col,
                   complete_index, summary, wbVars, callVars>>

EnrichStep(column, values, next) ==
    /\ merged_df' = SetColumn(merged_df, column, values)
    /\ pc' = next
    /\ UNCHANGED <<dataframes, date_start, date_end, freq, timestamp_col, err, trace,
                   complete_index, summary, wbVars, callVars>>

\* line 190
EnrichEsat ==
    /\ pc = "esat"
    /\ EnrichStep("esat_kPa",
          [i \in 1..Len(merged_df.rows) |->
              calculate_saturated_vapor_pressure(merged_df.rows[i]["AirTC_Avg"])],
          "ea")

\* line 193
EnrichEa ==
    /\ pc = "ea"
    /\ EnrichStep("ea_kPa",
          [i \in 1..Len(merged_df.rows) |->
              calculate_vapor_pressure(merged_df.rows[i]["RH_Avg"],
                                       merged_df.rows[i]["esat_kPa"])],
          "dewpoint")

\* line 196
EnrichDewpoint ==
    /\ pc = "dewpoint"
    /\ EnrichStep("dewpoint_C",
          [i \in 1..Len(merged_df.rows) |-> calculate_dewpoint(merged_df.rows[i]["ea_kPa"])],
          "wet_bulb")

\* mutant: every record is solved with the pressure of the first record
EnrichWetBulb_first_row_pressure ==
    /\ pc = "wet_bulb"
    /\ EnrichStep("wet_bulb_C",
          [i \in 1..Len(merged_df.rows) |->
              calculate_wet_bulb_temperature(merged_df.rows[i]["AirTC_Avg"],
                                             merged_df.rows[i]["ea_kPa"],
                                             PressureKPa(merged_df.rows[1]))],
          "wbgt")

\* lines 200-204
EnrichWetBulb ==
    /\ pc = "wet_bulb"
    /\ EnrichStep("wet_bulb_C",
          [i \in 1..Len(merged_df.rows) |-> wet_bulb_of_row(merged_df.rows[i])],
          "wbgt")

\* lines 207-227
EnrichWbgt ==
    /\ pc = "wbgt"
    /\ EnrichStep("WBGT_C",
          [i \in 1..Len(merged_df.rows) |-> wbgt_of_row(merged_df.rows[i])],
          "done")

NextEnrich ==
    \/ EnrichBegin
    \/ EnrichEsat
    \/ EnrichEa
    \/ EnrichDewpoint
    \/ EnrichWetBulb
    \/ EnrichWbgt

SpecEnrich == InitEnrich /\ [][NextEnrich]_vars

(* Properties of add_meteorological_calculations *)

EnrichDone == pc = "done" /\ trace = <<"add_meteorological_calculations">>
EnrichOk == EnrichDone /\ err = NoError

\* C12: wbgt of non-missing inputs is 0.2*blackGlobe + 0.7*wetBulb +
\* 0.1*dryBulb, black globe first, and the enrichment passes BGTemp_C_Avg,
\* wet_bulb_C, AirTC_Avg in that order: ten times WBGT_C of a record is
\* 2*BGTemp_C_Avg + 7*wet_bulb_C + AirTC_Avg, to the sixth decimal.
C12_WbgtWeightedSum ==
    EnrichOk =>
        \A i \in 1..Len(merged_df.rows) :
            LET row == merged_df.rows[i]
                sum == 2 * row["BGTemp_C_Avg"].v + 7 * row["wet_bulb_C"].v
                          + row["AirTC_Avg"].v
            IN (~isnull(row["BGTemp_C_Avg"]) /\ ~isnull(row["wet_bulb_C"])
                   /\ ~isnull(row["AirTC_Avg"]))
                  => /\ ~isnull(row["WBGT_C"])
                     /\ sum - 10 * row["WBGT_C"].v >= 0
                     /\ sum - 10 * row["WBGT_C"].v < 30

\* a record with all three inputs numeric and pairwise different
C12_Witness ==
    /\ EnrichOk
    /\ \E i \in 1..Len(merged_df.rows) :
          LET row == merged_df.rows[i]
          IN /\ ~isnull(row["BGTemp_C_Avg"]) /\ ~isnull(row["wet_bulb_C"])
             /\ ~isnull(row["AirTC_Avg"]) /\ ~isnull(row["WBGT_C"])
             /\ row["BGTemp_C_Avg"] # row["AirTC_Avg"]
             /\ row["wet_bulb_C"] # row["AirTC_Avg"]

Missing(row, cols) == \E c \in cols : isnull(row[c])
AllMissing(row, cols) == \A c \in cols : isnull(row[c])

\* C14 as stated: a record with any of the four source fields missing has
\* all five derived fields missing.
C14_AnyMissingSourceBlanksAll ==
    EnrichOk =>
        \A i \in 1..Len(merged_df.rows) :
            Missing(merged_df.rows[i], Range(RequiredColumns))
               => AllMissing(merged_df.rows[i], Range(DerivedColumns))

\* C14 amended: a derived field of a record is missing when a source field
\* it is computed from is missing in that record (esat_kPa: AirTC_Avg;
\* ea_kPa and dewpoint_C: also RH_Avg; wet_bulb_C: also P_Air_Avg; WBGT_C:
\* also BGTemp_C_Avg); esat_kPa and ea_kPa are numbers when their sources
\* are present, and a record with all four sources present and positive
\* humidity has all five derived fields numeric, whatever the other records
\* hold.
C14_MissingFollowsDependencies ==
    EnrichOk =>
        \A i \in 1..Len(merged_df.rows) :
            LET row == merged_df.rows[i] IN
            /\ isnull(row["esat_kPa"]) <=> Missing(row, {"AirTC_Avg"})
            /\ isnull(row["ea_kPa"]) <=> Missing(row, {"AirTC_Avg", "RH_Avg"})
            /\ Missing(row, {"AirTC_Avg", "RH_Avg"}) => isnull(row["dewpoint_C"])
            /\ Missing(row, {"AirTC_Avg", "RH_Avg", "P_Air_Avg"}) => isnull(row["wet_bulb_C"])
            /\ Missing(row, Range(RequiredColumns)) => isnull(row["WBGT_C"])
            /\ (~Missing(row, Range(RequiredColumns)) /\ row["RH_Avg"].v > 0)
                  => ~Missing(row, Range(DerivedColumns))

\* two records: one lacks only the pressure and keeps a dewpoint but no
\* wet-bulb temperature, the other is complete and fully derived
C14_Witness ==
    /\ EnrichOk
    /\ Len(merged_df.rows) = 2
    /\ \E i, j \in 1..2 :
          /\ isnull(merged_df.rows[i]["P_Air_Avg"])
          /\ ~isnull(merged_df.rows[i]["dewpoint_C"])
          /\ isnull(merged_df.rows[i]["wet_bulb_C"])
          /\ ~Missing(merged_df.rows[j], Range(RequiredColumns) \cup Range(DerivedColumns))

-----------------------------------------------------------------------------
(* main.main_pipeline, called directly or through cli.main.  fs holds the   *)
(* paths that exist; args holds the call's arguments, the state of the      *)
(* configuration file and what each daily input file would load to.         *)

Path(kind, day) == [kind |-> kind, day |-> day]
InputFile(d) == Path("input", d)
OutputDir == Path("output_dir", 0)
OutputFiles == {Path(k, 0) : k \in {"csv", "metadata", "plots", "plots_summary"}}
\* the three paths validate_output_paths looks at
ValidatedOutputs == {Path(k, 0) : k \in {"csv", "metadata", "plots"}}

ConfigNotFoundMsg == "Configuration file not found"
InvalidDateMsg == "Invalid date format"
FileExistsMsg == "Output files already exist"
NoInputFilesMsg == "No input files found in the specified date range"
LoadFailedMsg == "Failed to load any data files"

Days == 0..MaxDay

\* what read_data_file gives for the file of day d: a frame with the
\* meteorological fields, a frame without them, or an exception
Unreadable == [ok |-> FALSE, df |-> EmptyFrame]
FileContents(d) ==
    {Unreadable,
     [ok |-> TRUE,
      df |-> [cols |-> EnrichSchema,
              rows |-> <<[c \in Range(EnrichSchema) |->
                            CASE c = "TIMESTAMP" -> Ts(DayStart(d))
                              [] c = "AirTC_Avg" -> Num(Fx(25, 0))
                              [] c = "RH_Avg" -> Num(Fx(50, 0))
                              [] c = "P_Air_Avg" -> Num(Fx(1013, 0))
                              [] OTHER -> Num(Fx(30, 0))]>>]],
     [ok |-> TRUE,
      df |-> [cols |-> SchemaFull,
              rows |-> <<[c \in Range(SchemaFull) |->
                            IF c = "TIMESTAMP" THEN Ts(DayStart(d) + OffGrid)
                            ELSE Num(1)]>>]]}

\* the file systems the run may start in: any of the daily files, and no
\* output directory, an empty one, or one holding an earlier CSV
InitialFileSystems ==
    {ins \cup outs : ins \in SUBSET {InputFile(d) : d \in Days},
                     outs \in {{}, {OutputDir}, {OutputDir, Path("csv", 0)}}}

\* utils.generate_date_list with io_files.check_file_existence: the days of
\* the range whose file exists, in date order
RECURSIVE existing_files(_, _, _)
existing_files(current, de, files) ==
    IF DayStart(current) > de THEN <<>>
    ELSE (IF InputFile(current) \in files THEN <<current>> ELSE <<>>)
            \o existing_files(current + 1, de, files)

\* io_files.load_all_files: the frames of the files that load, in list order
RECURSIVE load_all_files(_, _)
load_all_files(file_list, contents) ==
    IF file_list = <<>> THEN <<>>
    ELSE (IF contents[Head(file_list)].ok THEN <<contents[Head(file_list)].df>> ELSE <<>>)
            \o load_all_files(Tail(file_list), contents)

InitPipeline ==
    /\ date_start \in Dates
    /\ date_end \in Dates
    /\ fs \in InitialFileSystems
    /\ \E config \in {"ok", "missing", "bad_date"}, dry_run, overwrite, cli \in BOOLEAN :
       \E files \in {f \in [Days -> UNION {FileContents(d) : d \in Days}] :
                        \A d \in Days : /\ f[d] \in FileContents(d)
                                        /\ InputFile(d) \notin fs => f[d] = Unreadable} :
          args = [config |-> config, dry_run |-> dry_run, overwrite |-> overwrite,
                  cli |-> cli, files |-> files, fs0 |-> fs]
    /\ dataframes = <<>>
    /\ freq = DefaultFreq
    /\ pc = "start"
    /\ timestamp_col = NoCol
    /\ merged_df = EmptyFrame
    /\ err = NoError
    /\ trace = <<>>
    /\ complete_index = <<>>
    /\ summary = NoSummary
    /\ T = NaN /\ RH = NaN /\ SP = NaN /\ ea = NaN /\ Td = NaN /\ Tw = NaN
    /\ iter = 0 /\ evals = 0 /\ wet_bulb = NaN
    /\ result = NaN

\* mutant: validate_output_dir called with create=True in every run
PipelineBegin_always_creates ==
    /\ pc = "start"
    /\ trace' = <<"main_pipeline">>
    /\ IF args.config = "missing" THEN Raise(ConfigNotFoundMsg) /\ UNCHANGED fs
       ELSE IF args.config = "bad_date" THEN Raise(InvalidDateMsg) /\ UNCHANGED fs
       ELSE /\ fs' = fs \cup {OutputDir}
            /\ IF fs \cap ValidatedOutputs # {} /\ ~args.overwrite
               THEN Raise(FileExistsMsg)
               ELSE pc' = "discover" /\ UNCHANGED err
    /\ UNCHANGED <<dataframes, date_start, date_end, freq, timestamp_col, merged_df,
                   complete_index, summary, wbVars, args, result>>

\* main.py lines 84-103: configuration, dates, output directory, output paths
PipelineBegin ==
    /\ pc = "start"
    /\ trace' = <<"main_pipeline">>
    /\ IF args.config = "missing" THEN Raise(ConfigNotFoundMsg) /\ UNCHANGED fs
       ELSE IF args.config = "bad_date" THEN Raise(InvalidDateMsg) /\ UNCHANGED fs
       ELSE /\ fs' = IF args.dry_run THEN fs ELSE fs \cup {OutputDir}
            /\ IF fs \cap ValidatedOutputs # {} /\ ~args.overwrite
               THEN Raise(FileExistsMsg)
               ELSE pc' = "discover" /\ UNCHANGED err
    /\ UNCHANGED <<dataframes, date_start, date_end, freq, timestamp_col, merged_df,
                   complete_index, summary, wbVars, args, result>>

\* the empty check left out: an empty list goes on to the next step
PipelineDiscover_unchecked ==
    /\ pc = "discover"
    /\ IF args.dry_run THEN pc' = "done" ELSE pc' = "load"
    /\ UNCHANGED <<dataframes, date_start, date_end, freq, timestamp_col, merged_df,
                   err, trace, complete_index, summary, wbVars, callVars>>

\* main.py lines 105-118: file discovery, the empty check, the dry-run return
PipelineDiscover ==
    /\ pc = "discover"
    /\ IF existing_files(date_start \div MinutesPerDay, date_end, fs) = <<>>
       THEN Raise(NoInputFilesMsg)
       ELSE /\ IF args.dry_run THEN pc' = "done" ELSE pc' = "load"
            /\ UNCHANGED err
    /\ UNCHANGED <<dataframes, date_start, date_end, freq, timestamp_col, merged_df,
                   trace, complete_index, summary, wbVars, callVars>>

\* main.py lines 120-131: loading, and the metadata, which cannot fail
PipelineLoad ==
    /\ pc = "load"
    /\ trace' = Append(trace, "load_all_files")
    /\ dataframes' = load_all_files(
                        existing_files(date_start \div MinutesPerDay, date_end, fs),
                        args.files)
    /\ IF dataframes' = <<>> THEN Raise(LoadFailedMsg) ELSE pc' = "merge" /\ UNCHANGED err
    /\ UNCHANGED <<date_start, date_end, freq, timestamp_col, merged_df,
                   complete_index, summary, wbVars, callVars>>

\* main.py lines 133-137
PipelineMerge ==
    /\ pc = "merge"
    /\ trace' = Append(trace, "merge_daily_data")
    /\ \E r \in merge_daily_data(dataframes, date_start, date_end) :
          IF r.err # NoError
          THEN Raise(r.err) /\ UNCHANGED <<merged_df, timestamp_col>>
          ELSE /\ merged_df' = r.val
               /\ timestamp_col' = get_timestamp_column_info(r.val.cols).val
               /\ pc' = "enrich"
               /\ UNCHANGED err
    /\ UNCHANGED <<dataframes, date_start, date_end, freq,
                   complete_index, summary, wbVars, callVars>>

\* main.py lines 139-143
PipelineEnrich ==
    /\ pc = "enrich"
    /\ trace' = Append(trace, "add_meteorological_calculations")
    /\ LET r == add_meteorological_calculations(merged_df) IN
       IF r.err # NoError
       THEN Raise(r.err) /\ UNCHANGED <<merged_df, summary>>
       ELSE /\ merged_df' = r.val
            /\ summary' = get_merge_summary(r.val, timestamp_col, date_start, date_end)
            /\ pc' = "save"
            /\ UNCHANGED err
    /\ UNCHANGED <<dataframes, date_start, date_end, freq, timestamp_col,
                   complete_index, wbVars, callVars>>

\* main.py lines 145-160
PipelineSave ==
    /\ pc = "save"
    /\ trace' = Append(trace, "save_merged_data")
    /\ fs' = fs \cup OutputFiles
    /\ pc' = "done"
    /\ UNCHANGED <<dataframes, date_start, date_end, freq, timestamp_col, merged_df,
                   err, complete_index, summary, wbVars, args, result>>

\* cli.py lines 48-57: an exception becomes exit status 1
CliExit ==
    /\ pc = "done"
    /\ trace # <<>> /\ trace[1] = "main_pipeline"
    /\ args.cli
    /\ result' = IF err # NoError THEN Num(1) ELSE Num(0)
    /\ pc' = "exit"
    /\ UNCHANGED <<dataframes, date_start, date_end, freq, timestamp_col, merged_df,
                   err, trace, complete_index, summary, wbVars, args, fs>>

NextPipeline ==
    \/ PipelineBegin
    \/ PipelineDiscover
    \/ PipelineLoad
    \/ PipelineMerge
    \/ PipelineEnrich
    \/ PipelineSave
    \/ CliExit

SpecPipeline == InitPipeline /\ [][NextPipeline]_vars

(* Properties of main_pipeline *)

PipelineDone == pc \in {"done", "exit"} /\ trace # <<>> /\ trace[1] = "main_pipeline"

NoInputInRange ==
    \A d \in Days :
        (date_start <= DayStart(d) /\ DayStart(d) <= date_end) => InputFile(d) \notin args.fs0

\* C16: a dry run does not raise even when no expected input file exists;
\* it reports what would be processed and returns normally.
C16_DryRunNeverRaises ==
    (PipelineDone /\ args.dry_run /\ args.config = "ok"
        /\ args.fs0 \cap ValidatedOutputs = {} /\ NoInputInRange)
       => err = NoError

RaisedNoInputFiles ==
    /\ err = NoInputFilesMsg
    /\ trace = <<"main_pipeline">>
    /\ dataframes = <<>>
    /\ merged_df = EmptyFrame
    /\ fs \cap OutputFiles = args.fs0 \cap OutputFiles
    /\ (pc = "exit" => result = Num(1))

\* C17 as stated: a run that is not a dry run and finds no input file in the
\* date range raises ValueError 'No input files found' before any file is
\* loaded, merged or written, and the command line exits with status 1.
C17_NoInputFilesRaises ==
    (PipelineDone /\ ~args.dry_run /\ args.config = "ok" /\ NoInputInRange)
       => RaisedNoInputFiles

\* C17 amended: the same, provided that no output file exists already or
\* overwrite is set; otherwise the existing outputs are reported first.
C17_NoInputFilesRaisesUnlessOutputsExist ==
    (PipelineDone /\ ~args.dry_run /\ args.config = "ok" /\ NoInputInRange
        /\ (args.overwrite \/ args.fs0 \cap ValidatedOutputs = {}))
       => RaisedNoInputFiles

C17_Witness ==
    /\ pc = "exit" /\ ~args.dry_run /\ args.config = "ok" /\ NoInputInRange
    /\ date_start <= date_end
    /\ args.fs0 \cap ValidatedOutputs # {} /\ args.overwrite
    /\ RaisedNoInputFiles
    /\ OutputDir \in fs

(* What main_pipeline leaves behind *)

StepsOfFullRun ==
    <<"main_pipeline", "load_all_files", "merge_daily_data",
      "add_meteorological_calculations", "save_merged_data">>

OutputWritten ==
    \/ \E i \in 1..Len(trace) : trace[i] = "save_merged_data"
    \/ fs \cap OutputFiles # args.fs0 \cap OutputFiles

\* C30: a dry run never creates the output directory, loads a data file,
\* runs merge or enrich, or writes an output; a run that is not a dry run
\* writes an output only after the output paths were validated (an existing
\* output without overwrite raises FileExistsError), input files were
\* found, at least one was loaded and the merge succeeded.
C30_DryRunLeavesNoTrace ==
    /\ args.dry_run =>
          /\ fs = args.fs0
          /\ trace \in {<<>>, <<"main_pipeline">>}
          /\ dataframes = <<>>
          /\ merged_df = EmptyFrame
          /\ summary = NoSummary
    /\ (~args.dry_run /\ OutputWritten) =>
          /\ trace = StepsOfFullRun
          /\ err = NoError
          /\ args.config = "ok"
          /\ (args.overwrite \/ args.fs0 \cap ValidatedOutputs = {})
          /\ existing_files(date_start \div MinutesPerDay, date_end, args.fs0) # <<>>
          /\ dataframes # <<>>
          /\ Len(merged_df.rows) = 48 * DaysInRange
    /\ (err = FileExistsMsg) =>
          /\ args.fs0 \cap ValidatedOutputs # {} /\ ~args.overwrite
          /\ trace = <<"main_pipeline">>
          /\ fs \cap OutputFiles = args.fs0 \cap OutputFiles

\* a dry run that found input files, with no output directory before or after
C30_Witness ==
    /\ PipelineDone
    /\ args.dry_run /\ args.config = "ok"
    /\ err = NoError
    /\ ~NoInputInRange
    /\ OutputDir \notin args.fs0
    /\ OutputDir \notin fs

WbgtExampleCalled ==
    /\ Returned("calculate_wbgt")
    /\ args = <<Num(Fx(30, 0)), Num(Fx(20, 0)), Num(Fx(25, 0))>>

\* C13 as stated: wbgt(30, 20, 25), black globe 30, wet bulb 20, dry bulb
\* 25, equals 23.0.
C13_WbgtExampleIs23 ==
    WbgtExampleCalled => result = Num(Fx(23, 0))

\* C13 amended: wbgt(30, 20, 25) equals 22.5, the weighted sum
\* 0.2*30 + 0.7*20 + 0.1*25 = 6 + 14 + 2.5.
C13_WbgtExampleIs22_5 ==
    WbgtExampleCalled => result = Num(Fx(22, 500000))

C13_Witness ==
    /\ WbgtExampleCalled
    /\ result = Num(Fx(22, 500000))


-----------------------------------------------------------------------------
(* parse_header.parse_header.  A file is the sequence of its lines; a line  *)
(* is the sequence of its comma-separated fields, each with or without      *)
(* surrounding double quotes.                                               *)

MaxLines == 4

Bare(text) == [text |-> text, quoted |-> FALSE]
Quoted(text) == [text |-> text, quoted |-> TRUE]

\* ''.split(',') is ['']: the empty text has one empty field
BlankLine == <<Bare("")>>

HeaderLinePool ==
    {<<Bare("TOA5"), Bare("Biobasis_MM1")>>,
     <<Quoted("TIMESTAMP"), Quoted("RECORD"), Quoted("AirTC_Avg")>>,
     <<Bare("TIMESTAMP"), Bare("RECORD"), Bare("AirTC_Avg")>>,
     <<Quoted("TS"), Quoted("RN")>>,
     <<Quoted("Avg"), Quoted("Avg"), Quoted("Avg")>>,
     BlankLine}

HeaderFiles == UNION {[1..n -> HeaderLinePool] : n \in 0..MaxLines}

FileNotFoundMsg == "FileNotFoundError"
FewerThan4Msg == "fewer than 4 header lines"

\* f.readline().strip(): the k-th line, and the empty text at end of file
readline(file, k) == IF k <= Len(file) THEN file[k] ELSE BlankLine

\* [col.strip('"') for col in line.split(',')]
split_fields(line) == [i \in 1..Len(line) |-> line[i].text]

\* the dictionary built by the loop over enumerate(column_names): a later
\* occurrence of a name overwrites an earlier one
header_dict(column_names, values) ==
    [name \in Range(column_names) |->
        LET i == CHOOSE j \in 1..Len(column_names) :
                    /\ column_names[j] = name
                    /\ \A k \in 1..Len(column_names) : column_names[k] = name => k <= j
        IN IF i <= Len(values) THEN values[i] ELSE ""]

NoHeader == [column_names |-> <<>>, units |-> <<>>, stats |-> <<>>]

\* parse_header.py lines 17-50: the comprehension calls readline four times,
\* whatever the file holds, so lines always has four entries
parse_header(file) ==
    LET lines == [k \in 1..4 |-> readline(file, k)] IN
    IF Len(lines) < 4 THEN [err |-> FewerThan4Msg, val |-> NoHeader]
    ELSE LET column_names == split_fields(lines[2])
             units_list == split_fields(lines[3])
             stats_list == split_fields(lines[4])
         IN [err |-> NoError,
             val |-> [column_names |-> column_names,
                      units |-> header_dict(column_names, units_list),
                      stats |-> header_dict(column_names, stats_list)]]

InitHeader ==
    /\ \E exists \in BOOLEAN, lines \in HeaderFiles :
          /\ (~exists => lines = <<>>)
          /\ args = [exists |-> exists, lines |-> lines]
    /\ result = [err |-> NoError, val |-> NoHeader]
    /\ fs = {}
    /\ pc = "start"
    /\ dataframes = <<>>
    /\ date_start = 0
    /\ date_end = 0
    /\ freq = DefaultFreq
    /\ timestamp_col = NoCol
    /\ merged_df = EmptyFrame
    /\ err = NoError
    /\ trace = <<>>
    /\ complete_index = <<>>
    /\ summary = NoSummary
    /\ T = NaN /\ RH = NaN /\ SP = NaN /\ ea = NaN /\ Td = NaN /\ Tw = NaN
    /\ iter = 0 /\ evals = 0 /\ wet_bulb = NaN

CallParseHeader ==
    /\ pc = "start"
    /\ trace' = <<"parse_header">>
    /\ result' = IF args.exists THEN parse_header(args.lines)
                 ELSE [err |-> FileNotFoundMsg, val |-> NoHeader]
    /\ err' = result'.err
    /\ pc' = IF result'.err = NoError THEN "parsed" ELSE "done"
    /\ UNCHANGED <<dataframes, date_start, date_end, freq, timestamp_col, merged_df,
                   complete_index, summary, wbVars, args, fs>>

\* the caller's next step on a parsed header
HeaderTimestampColumn ==
    /\ pc = "parsed"
    /\ trace' = Append(trace, "get_timestamp_column_info")
    /\ LET r == get_timestamp_column_info(result.val.column_names) IN
          /\ err' = r.err
          /\ timestamp_col' = IF r.err = NoError THEN r.val ELSE timestamp_col
    /\ pc' = "done"
    /\ UNCHANGED <<dataframes, date_start, date_end, freq, merged_df,
                   complete_index, summary, wbVars, callVars>>

NextHeader ==
    \/ CallParseHeader
    \/ HeaderTimestampColumn

SpecHeader == InitHeader /\ [][NextHeader]_vars

HeaderParsed == trace # <<>> /\ trace[1] = "parse_header"

\* C18: parse_header raises ValueError 'fewer than 4 header lines' for any
\* file that holds fewer than four lines.
C18_ShortFileRaises ==
    (HeaderParsed /\ args.exists /\ Len(args.lines) < 4) => result.err = FewerThan4Msg

-----------------------------------------------------------------------------
(* The timestamp field: get_timestamp_column_info called on a field list,   *)
(* and merge_daily_data on series whose field lists differ.                 *)

MaxCols == 3

FieldNames == {"TIMESTAMP", "DateTime", "time", "RECORD", "value"}

\* the lists of at most n distinct field names
RECURSIVE ColumnLists(_)
ColumnLists(n) ==
    IF n = 0 THEN {<<>>}
    ELSE LET shorter == ColumnLists(n - 1) IN
         shorter \cup UNION {{Append(l, c) : c \in FieldNames \ Range(l)} : l \in shorter}

\* the field lists of the series that are merged: each has a time field
SeriesColumnLists ==
    {l \in ColumnLists(2) : /\ l # <<>>
                            /\ Range(l) \subseteq {"TIMESTAMP", "time", "value"}
                            /\ Range(l) \cap {"TIMESTAMP", "time"} # {}}

\* a series of one record at time t, its time fields all reading t
SeriesFrame(cols, t) ==
    [cols |-> cols,
     rows |-> <<[c \in Range(cols) |-> IF c = "value" THEN Num(1) ELSE Ts(t)]>>]

SeriesFrames == {SeriesFrame(l, t) : l \in SeriesColumnLists, t \in {0, DefaultFreq}}

RECURSIVE SeriesLists(_)
SeriesLists(k) ==
    IF k = 0 THEN {<<>>}
    ELSE LET shorter == SeriesLists(k - 1) IN
         shorter \cup {Append(l, f) : l \in shorter, f \in SeriesFrames}

InitTsCol ==
    /\ \/ args \in ColumnLists(MaxCols) /\ dataframes = <<>>
       \/ args = <<>> /\ dataframes \in SeriesLists(MaxSeries)
    /\ result = NaN
    /\ fs = {}
    /\ date_start = 0
    /\ date_end = 0
    /\ freq = DefaultFreq
    /\ pc = "start"
    /\ timestamp_col = NoCol
    /\ merged_df = EmptyFrame
    /\ err = NoError
    /\ trace = <<>>
    /\ complete_index = <<>>
    /\ summary = NoSummary
    /\ T = NaN /\ RH = NaN /\ SP = NaN /\ ea = NaN /\ Td = NaN /\ Tw = NaN
    /\ iter = 0 /\ evals = 0 /\ wet_bulb = NaN

\* a direct call of get_timestamp_column_info(args)
CallGetTimestampColumnInfo ==
    /\ pc = "start"
    /\ trace' = <<"get_timestamp_column_info">>
    /\ result' = get_timestamp_column_info(args)
    /\ err' = result'.err
    /\ pc' = "done"
    /\ UNCHANGED <<dataframes, date_start, date_end, freq, timestamp_col, merged_df,
                   complete_index, summary, wbVars, args, fs>>

NextTsCol ==
    \/ CallGetTimestampColumnInfo
    \/ MergeBegin
    \/ MergeConcatenate
    \/ MergeSort
    \/ MergeRemoveDuplicates
    \/ MergeReindex

SpecTsCol == InitTsCol /\ [][NextTsCol]_vars

(* Properties of the timestamp-field selection *)

TimestampAliases == <<"TIMESTAMP", "timestamp", "DateTime", "datetime", "TIME", "time">>

\* the selection as the specification words it
SelectedField(cols) ==
    LET present == {i \in 1..Len(TimestampAliases) : TimestampAliases[i] \in Range(cols)} IN
    IF present # {}
    THEN TimestampAliases[CHOOSE i \in present : \A j \in present : i <= j]
    ELSE cols[1]

SelectionCalled == trace # <<>> /\ trace[1] = "get_timestamp_column_info"
MergeCalled == trace # <<>> /\ trace[1] = "merge_daily_data" /\ dataframes # <<>>

SortedByField(df, col) ==
    \A i, j \in 1..Len(df.rows) : i < j => KeyLE(df.rows[i][col], df.rows[j][col])

\* C19: the selected field is the first alias of the priority list that is
\* among the field names, wherever it stands, else the first declared field;
\* an empty list fails with 'No columns found'; and merge sorts, deduplicates
\* and re-indexes every series by the field selected from the first series.
C19_TimestampFieldSelection ==
    /\ SelectionCalled =>
          IF args = <<>> THEN result = [err |-> NoColumnsMsg, val |-> NoCol] /\ err = NoColumnsMsg
          ELSE result = [err |-> NoError, val |-> SelectedField(args)]
    /\ MergeCalled =>
          /\ timestamp_col = SelectedField(dataframes[1].cols)
          /\ pc = "dedup" => SortedByField(merged_df, SelectedField(dataframes[1].cols))
          /\ pc = "reindex" =>
                ~HasDuplicateLabels(merged_df, SelectedField(dataframes[1].cols))
          /\ (pc = "done" /\ err = NoError) =>
                /\ merged_df.cols[1] = SelectedField(dataframes[1].cols)
                /\ Len(merged_df.rows) = Len(create_complete_time_index(date_start, date_end, freq))

\* two series that alone would select different fields, the first one holding
\* a lower-priority alias ahead of TIMESTAMP
C19_Witness ==
    /\ MergeCalled /\ pc = "done" /\ err = NoError
    /\ Len(dataframes) = 2
    /\ dataframes[1].cols = <<"time", "TIMESTAMP">>
    /\ dataframes[2].cols = <<"time", "value">>
    /\ timestamp_col = "TIMESTAMP"
    /\ merged_df.cols = <<"TIMESTAMP", "time", "value">>

-----------------------------------------------------------------------------
(* Stability of sort_by_timestamp *)

\* r put behind the last row that may precede it: rows of equal key keep
\* their order of arrival
RECURSIVE InsertStable(_, _, _)
InsertStable(sorted, r, col) ==
    IF sorted = <<>> THEN <<r>>
    ELSE IF KeyLE(Head(sorted)[col], r[col])
         THEN <<Head(sorted)>> \o InsertStable(Tail(sorted), r, col)
         ELSE <<r>> \o sorted

RECURSIVE StableSorted(_, _)
StableSorted(rows, col) ==
    IF rows = <<>> THEN <<>>
    ELSE InsertStable(StableSorted(SubSeq(rows, 1, Len(rows) - 1), col),
                      rows[Len(rows)], col)

SortCalled == trace # <<>> /\ trace[1] = "sort_by_timestamp" /\ pc = "done" /\ err = NoError
MergeSorted == trace # <<>> /\ trace[1] = "merge_daily_data" /\ pc = "dedup"

\* C20: sort_by_timestamp is a stable ascending sort: its output holds the
\* input's records by non-decreasing timestamp, and records of equal
\* timestamp keep their input (concatenation) order.
C20_SortIsStable ==
    /\ SortCalled =>
          \E k \in 1..Len(dataframes) :
             merged_df = [cols |-> dataframes[k].cols,
                          rows |-> StableSorted(dataframes[k].rows, timestamp_col)]
    /\ MergeSorted =>
          merged_df.rows = StableSorted(pd_concat(dataframes).rows, timestamp_col)

-----------------------------------------------------------------------------
(* Order of the concatenated records *)

\* the number of records ahead of series k in the concatenation
RECURSIVE RecordsBefore(_)
RecordsBefore(k) ==
    IF k <= 1 THEN 0 ELSE RecordsBefore(k - 1) + Len(dataframes[k - 1].rows)

\* record i of series k stands at its place, with its own values and with
\* NaN in the fields its series does not have
RecordInPlace(k, i) ==
    LET out == merged_df.rows[RecordsBefore(k) + i]
        in == dataframes[k].rows[i]
    IN \A c \in Range(merged_df.cols) :
          out[c] = IF c \in Range(dataframes[k].cols) THEN in[c] ELSE NaN

JustConcatenated ==
    /\ err = NoError
    /\ \/ ConcatDone
       \/ trace # <<>> /\ trace[1] = "merge_daily_data" /\ pc = "sort"

\* C21: concatenate of a non-empty list returns the input records in input
\* order: as many as the inputs hold together, those of series k ahead of
\* those of series k+1, each series in its own order, none sorted, dropped
\* or validated.
C21_ConcatKeepsInputOrder ==
    (JustConcatenated /\ dataframes # <<>>) =>
       /\ Len(merged_df.rows) = RecordsBefore(Len(dataframes) + 1)
       /\ \A k \in 1..Len(dataframes) :
             /\ Range(dataframes[k].cols) \subseteq Range(merged_df.cols)
             /\ \A i \in 1..Len(dataframes[k].rows) : RecordInPlace(k, i)

\* two series, the first one's record later in time than the second one's
C21_Witness ==
    /\ ConcatDone /\ err = NoError
    /\ Len(dataframes) = 2
    /\ dataframes[1].cols = SchemaFull /\ dataframes[2].cols = SchemaFull
    /\ Len(dataframes[1].rows) = 1 /\ Len(dataframes[2].rows) = 1
    /\ dataframes[1].rows[1]["TIMESTAMP"] = Ts(LastSlot)
    /\ dataframes[2].rows[1]["TIMESTAMP"] = Ts(0)
    /\ merged_df.rows[1]["TIMESTAMP"] = Ts(LastSlot)
    /\ merged_df.rows[2]["TIMESTAMP"] = Ts(0)

-----------------------------------------------------------------------------
(* merge_logic.remove_duplicates called on a series, and once more on its   *)
(* own result.  result holds the count the warning reports, NaN when no     *)
(* warning is logged; args holds the argument of the second call.           *)

MaxDedupRows == 3

DedupTimestamps == {Ts(0), Ts(DefaultFreq), NaN}

DedupRows ==
    {[c \in Range(SchemaFull) |->
        IF c = "TIMESTAMP" THEN t ELSE IF c = "RECORD" THEN Num(n) ELSE Num(5)] :
        t \in DedupTimestamps, n \in 1..2}

DedupFrames ==
    {[cols |-> SchemaFull, rows |-> rs] : rs \in RowSeqs(DedupRows, MaxDedupRows)}
    \cup {[cols |-> SchemaNoTs, rows |-> rs] : rs \in RowSeqs(RowsOf(SchemaNoTs), 1)}

InitDedup ==
    /\ dataframes \in {<<f>> : f \in DedupFrames}
    /\ timestamp_col = "TIMESTAMP"
    /\ args = EmptyFrame
    /\ result = NaN
    /\ fs = {}
    /\ date_start = 0
    /\ date_end = 0
    /\ freq = DefaultFreq
    /\ pc = "start"
    /\ merged_df = EmptyFrame
    /\ err = NoError
    /\ trace = <<>>
    /\ complete_index = <<>>
    /\ summary = NoSummary
    /\ T = NaN /\ RH = NaN /\ SP = NaN /\ ea = NaN /\ Td = NaN /\ Tw = NaN
    /\ iter = 0 /\ evals = 0 /\ wet_bulb = NaN

\* lines 37-46 on df; drop_duplicates raises KeyError for an absent column
RemoveDuplicatesOf(df, next) ==
    /\ trace' = Append(trace, "remove_duplicates")
    /\ args' = df
    /\ IF timestamp_col \notin Range(df.cols)
       THEN Raise(KeyErrorMsg) /\ UNCHANGED <<merged_df, result>>
       ELSE LET initial_length == Len(df.rows)
                deduped_df == remove_duplicates(df, timestamp_col)
                duplicates_removed == initial_length - Len(deduped_df.rows)
            IN /\ merged_df' = deduped_df
               /\ result' = IF duplicates_removed > 0 THEN Num(duplicates_removed) ELSE NaN
               /\ pc' = next
               /\ UNCHANGED err
    /\ UNCHANGED <<dataframes, date_start, date_end, freq, timestamp_col,
                   complete_index, summary, wbVars, fs>>

\* remove_duplicates(dataframes[0], 'TIMESTAMP')
CallRemoveDuplicates ==
    /\ pc = "start"
    /\ RemoveDuplicatesOf(dataframes[1], "deduped")

\* remove_duplicates on the frame the first call returned
CallRemoveDuplicatesAgain ==
    /\ pc = "deduped"
    /\ RemoveDuplicatesOf(merged_df, "done")

NextDedup ==
    \/ CallRemoveDuplicates
    \/ CallRemoveDuplicatesAgain

SpecDedup == InitDedup /\ [][NextDedup]_vars

(* Properties of remove_duplicates *)

\* the positions of the records of rows that are the first with their timestamp
FirstOccurrences(rows, col) ==
    {i \in 1..Len(rows) : \A j \in 1..(i - 1) : rows[j][col] # rows[i][col]}

\* the j-th smallest member of the set of positions s
NthOf(s, j) == CHOOSE i \in s : Cardinality({k \in s : k <= i}) = j

DedupOnce == pc = "deduped" /\ trace = <<"remove_duplicates">>
DedupTwice == pc = "done" /\ trace = <<"remove_duplicates", "remove_duplicates">>

\* C22: deduplicate returns one record per distinct timestamp of its input,
\* the first in input order, the survivors in their input order; the count
\* it reports is input length minus output length; duplicates never raise;
\* and a second application changes nothing.
C22_DedupFirstWinsIdempotent ==
    /\ (pc # "start" /\ dataframes[1].cols = SchemaFull) => err = NoError
    /\ DedupOnce =>
          LET in == dataframes[1].rows
              first == FirstOccurrences(in, timestamp_col)
          IN /\ Len(merged_df.rows) = Cardinality(first)
             /\ \A j \in 1..Len(merged_df.rows) : merged_df.rows[j] = in[NthOf(first, j)]
             /\ merged_df.cols = dataframes[1].cols
             /\ IF Len(in) > Len(merged_df.rows)
                THEN result = Num(Len(in) - Len(merged_df.rows))
                ELSE result = NaN
    /\ DedupTwice => (merged_df = args /\ result = NaN)

\* three records, the first and the last at the same time: the last is
\* dropped, one drop is reported, and the second call has run
C22_Witness ==
    /\ DedupTwice
    /\ Len(dataframes[1].rows) = 3
    /\ dataframes[1].rows[1]["TIMESTAMP"] = Ts(DefaultFreq)
    /\ dataframes[1].rows[2]["TIMESTAMP"] = Ts(0)
    /\ dataframes[1].rows[3]["TIMESTAMP"] = Ts(DefaultFreq)
    /\ dataframes[1].rows[1] # dataframes[1].rows[3]
    /\ merged_df.rows = SubSeq(dataframes[1].rows, 1, 2)

-----------------------------------------------------------------------------
(* Order of the steps of merge_daily_data *)

\* the calls of a merge that succeeds, in order
MergeOrder ==
    <<"merge_daily_data", "get_timestamp_column_info", "concatenate_dataframes",
      "sort_by_timestamp", "remove_duplicates", "reindex_to_complete_grid",
      "create_complete_time_index">>

\* the calls made when the step named by pc is about to run
CallsBefore ==
    CASE pc = "concatenate" -> 2
      [] pc = "sort" -> 3
      [] pc = "dedup" -> 4
      [] pc = "reindex" -> 5
      [] OTHER -> Len(trace)

IsPrefix(s, t) == Len(s) <= Len(t) /\ s = SubSeq(t, 1, Len(s))

\* C23: merge runs concatenate, sortByTimestamp, deduplicate, the grid and
\* reindex in this order, each once; so when reindex runs the series holds
\* at most one record per timestamp and no slot has two candidates.
C23_StepsInFixedOrder ==
    MergeCalled =>
       /\ IsPrefix(trace, MergeOrder)
       /\ Len(trace) = CallsBefore
       /\ MergeOk => trace = MergeOrder
       /\ pc = "reindex" => ~HasDuplicateLabels(merged_df, timestamp_col)
       /\ err # DuplicateLabelsMsg

\* reindex is about to run on a series that lost a duplicate
C23_Witness ==
    /\ MergeCalled /\ pc = "reindex"
    /\ Len(merged_df.rows) < Len(Concatenated)
    /\ Len(merged_df.rows) > 0
    /\ date_start <= date_end

-----------------------------------------------------------------------------
(* The exits of the wet-bulb solver *)

\* TwNext = Tw - 0.5 * (wetBulbVaporPressure(airTempC, Tw, pressureKPa) - ea)
TwNext(tw) ==
    tw - Mul[calculate_wet_bulb_vapor_pressure(T.v, tw, SP.v) - ea.v, AdjustmentFactor]

OutOfBounds(tw) == tw < Td.v - BoundMargin \/ tw > T.v + BoundMargin

WetBulbRan == WetBulbDone /\ WetBulbInputsPresent /\ ~isnull(Td)

\* C24: from Tw = dewpoint(ea), each iteration computes TwNext; within
\* tolerance of Tw it is returned at once, unchecked against the bounds;
\* otherwise it becomes Tw, and if outside [Td - 5, T + 5] that Tw itself is
\* returned; otherwise after max_iterations the last Tw is returned.
C24_SolverExits ==
    /\ []((pc = "loop" /\ iter = 0) => (Td = calculate_dewpoint(ea) /\ Tw = Td))
    /\ [][(pc = "loop" /\ pc' = "loop") =>
             /\ Tw'.v = TwNext(Tw.v)
             /\ Abs(Tw'.v - Tw.v) >= tolerance
             /\ ~OutOfBounds(Tw'.v)
             /\ iter' = iter + 1 /\ iter' < max_iterations]_vars
    /\ [][(pc = "loop" /\ pc' = "done") =>
             LET next == TwNext(Tw.v) IN
             /\ wet_bulb' = Num(next)
             /\ CASE Abs(next - Tw.v) < tolerance -> trace'[Len(trace')] = "converged" /\ Tw' = Tw
                  [] Abs(next - Tw.v) >= tolerance /\ OutOfBounds(next) ->
                        trace'[Len(trace')] = "bounds" /\ Tw' = Num(next)
                  [] OTHER ->
                        trace'[Len(trace')] = "exhausted" /\ Tw' = Num(next)
                           /\ iter = max_iterations - 1]_vars

\* a first step within tolerance from a dewpoint above T + 5: the value is
\* returned by the convergence exit although it lies outside the interval
C24_Witness ==
    /\ WetBulbRan
    /\ WetBulbExit = "converged"
    /\ wet_bulb = Num(TwNext(Td.v))
    /\ OutOfBounds(wet_bulb.v)

-----------------------------------------------------------------------------
(* Independence of the records in add_meteorological_calculations *)

\* the series made of record i of df alone
OnlyRecord(df, i) == [cols |-> df.cols, rows |-> <<df.rows[i]>>]

\* df with its records in the order p
Reordered(df, p) == [cols |-> df.cols, rows |-> [i \in 1..Len(df.rows) |-> df.rows[p[i]]]]

\* C25: the derived fields of a record depend on that record's own air
\* temperature, humidity, pressure and black-globe temperature only: each
\* enriched record is what enriching it alone gives, records with the same
\* four inputs get the same derived fields, and enriching the records in
\* another order gives the same records in that order.
C25_RecordsIndependent ==
    EnrichOk =>
       LET in == dataframes[1]
           n == Len(in.rows)
       IN /\ \A i \in 1..n :
                merged_df.rows[i] = add_meteorological_calculations(OnlyRecord(in, i)).val.rows[1]
          /\ \A i, j \in 1..n :
                (\A c \in Range(RequiredColumns) : in.rows[i][c] = in.rows[j][c]) =>
                   \A c \in Range(DerivedColumns) : merged_df.rows[i][c] = merged_df.rows[j][c]
          /\ \A p \in Perms(n) :
                add_meteorological_calculations(Reordered(in, p)).val = Reordered(merged_df, p)

\* two records alike but for the pressure, which the second one lacks: the
\* first has a wet-bulb temperature, the second has none
C25_Witness ==
    /\ EnrichOk
    /\ Len(merged_df.rows) = 2
    /\ \A c \in {"AirTC_Avg", "RH_Avg", "BGTemp_C_Avg"} :
          merged_df.rows[1][c] = merged_df.rows[2][c] /\ ~isnull(merged_df.rows[1][c])
    /\ merged_df.rows[1]["P_Air_Avg"] = Num(Fx(1013, 0))
    /\ isnull(merged_df.rows[2]["P_Air_Avg"])
    /\ merged_df.rows[1]["RH_Avg"].v > 0
    /\ ~isnull(merged_df.rows[1]["wet_bulb_C"])
    /\ isnull(merged_df.rows[2]["wet_bulb_C"])
    /\ merged_df.rows[1]["dewpoint_C"] = merged_df.rows[2]["dewpoint_C"]

-----------------------------------------------------------------------------
(* Records that are on no grid slot *)

NonMissing(row) == \E c \in DOMAIN row : c # timestamp_col /\ ~isnull(row[c])

\* the input holds a record at time t
InInput(cat, t) == \E i \in 1..Len(cat) : cat[i][timestamp_col] = Ts(t)

\* C26: records whose timestamp is no grid slot, off the half hours or
\* outside the range, are dropped by merge without an error: every row of
\* the merged series that is not all missing stands at a slot that is the
\* timestamp of an input record and carries the fields of such a record.
C26_OffGridDropped ==
    (MergeDone /\ dataframes # <<>> /\ date_start <= date_end
        /\ \A k \in 1..Len(dataframes) : dataframes[k].cols = SchemaFull) =>
       LET cat == Concatenated IN
       /\ err = NoError
       /\ \A k \in 1..Len(merged_df.rows) :
             NonMissing(merged_df.rows[k]) =>
                /\ merged_df.rows[k][timestamp_col] = Ts(SlotTime(k))
                /\ \E i \in Candidates(cat, SlotTime(k)) :
                      \A c \in Range(SchemaFull) : merged_df.rows[k][c] = cat[i][c]

\* a one-day merge of a record at 00:45 and a record at 23:30 of a later
\* day: every row of the result is missing
C26_Witness ==
    /\ MergeOk
    /\ date_start = 0 /\ date_end = 0
    /\ LET cat == Concatenated IN
       /\ Len(cat) = 2
       /\ InInput(cat, OffGrid)
       /\ InInput(cat, LastSlot)
       /\ \A i \in 1..Len(cat) : ~isnull(cat[i]["RECORD"])
    /\ Len(merged_df.rows) = 48
    /\ \A k \in 1..Len(merged_df.rows) : ~NonMissing(merged_df.rows[k])

-----------------------------------------------------------------------------
(* Deduplicating before sorting *)

\* concatenate, deduplicate (first wins in concatenation order), sort,
\* reindex: the merged series this order of the steps gives
dedup_then_sort(dfs, col, ds, de) ==
    LET deduped == remove_duplicates(pd_concat(dfs), col) IN
    {reindex_to_complete_grid(s, col, ds, de).val : s \in sort_by_timestamp(deduped, col)}

\* C27: the merged series is the same whether the duplicates are removed
\* before or after the sort.
C27_SortDedupOrderIrrelevant ==
    (MergeOk /\ date_start <= date_end) =>
       dedup_then_sort(dataframes, timestamp_col, date_start, date_end) = {merged_df}

-----------------------------------------------------------------------------
(* The bounds of the wet-bulb estimate between two iterations *)

\* C28: at the start of every iteration after the first the estimate Tw is
\* inside [Td - 5, T + 5], so a value the convergence exit returns in the
\* second iteration or later is within tolerance of that interval; the first
\* estimate Tw = Td is not checked, and the first iteration runs whatever it is.
C28_LoopInvariant ==
    /\ (pc = "loop" /\ iter >= 1) => ~OutOfBounds(Tw.v)
    /\ (pc = "loop" /\ iter = 0) => Tw = Td
    /\ (WetBulbRan /\ WetBulbExit = "converged" /\ iter >= 1) =>
          /\ wet_bulb.v > Td.v - BoundMargin - tolerance
          /\ wet_bulb.v < T.v + BoundMargin + tolerance
    /\ WetBulbRan => evals >= 1

\* a call whose first estimate, the dewpoint, is above T + 5: the first
\* iteration has run and has ended the call
C28_Witness ==
    /\ WetBulbRan
    /\ Td.v > T.v + BoundMargin
    /\ evals = 1
    /\ ~isnull(wet_bulb)

-----------------------------------------------------------------------------
(* get_merge_summary on the series merge_daily_data returns and on the same *)
(* series after add_meteorological_calculations.  result holds the summary  *)
(* taken before the enrichment.                                             *)

\* an input file that carries a field named like a derived one
EnrichSchemaWithEsat ==
    <<"TIMESTAMP", "AirTC_Avg", "RH_Avg", "P_Air_Avg", "BGTemp_C_Avg", "esat_kPa">>

\* a record at time t: all its values present, none present, all but the
\* air temperature present, or none but the field named esat_kPa
SummarizeRecord(cols, t, filled) ==
    [c \in Range(cols) |->
        CASE c = "TIMESTAMP" -> Ts(t)
          [] c = "esat_kPa" -> Num(Fx(1, 0))
          [] c = "AirTC_Avg" -> IF filled = "full" THEN Num(Fx(25, 0)) ELSE NaN
          [] c = "RH_Avg" -> IF filled = "blank" THEN NaN ELSE Num(Fx(50, 0))
          [] c = "P_Air_Avg" -> IF filled = "blank" THEN NaN ELSE Num(Fx(1013, 0))
          [] OTHER -> IF filled = "blank" THEN NaN ELSE Num(Fx(30, 0))]

SummarizeFrames ==
    {[cols |-> cols, rows |-> <<SummarizeRecord(cols, t, filled)>>] :
        cols \in {EnrichSchema, EnrichSchemaWithEsat},
        t \in {0, OffGrid},
        filled \in {"full", "blank", "no_temp"}}

RECURSIVE SummarizeLists(_)
SummarizeLists(k) ==
    IF k = 1 THEN {<<f>> : f \in SummarizeFrames}
    ELSE LET shorter == SummarizeLists(k - 1) IN
         shorter \cup {Append(l, f) : l \in shorter, f \in SummarizeFrames}

InitSummarize ==
    /\ dataframes \in SummarizeLists(MaxSeries)
    /\ date_start \in Dates
    /\ date_end \in Dates
    /\ date_start <= date_end
    /\ args = <<>>
    /\ result = NoSummary
    /\ fs = {}
    /\ freq = DefaultFreq
    /\ pc = "start"
    /\ timestamp_col = NoCol
    /\ merged_df = EmptyFrame
    /\ err = NoError
    /\ trace = <<>>
    /\ complete_index = <<>>
    /\ summary = NoSummary
    /\ T = NaN /\ RH = NaN /\ SP = NaN /\ ea = NaN /\ Td = NaN /\ Tw = NaN
    /\ iter = 0 /\ evals = 0 /\ wet_bulb = NaN

\* main.py lines 133-137
SummarizeMerge ==
    /\ pc = "start"
    /\ trace' = <<"merge_daily_data">>
    /\ \E r \in merge_daily_data(dataframes, date_start, date_end) :
          IF r.err # NoError
          THEN Raise(r.err) /\ UNCHANGED <<merged_df, timestamp_col>>
          ELSE /\ merged_df' = r.val
               /\ timestamp_col' = get_timestamp_column_info(r.val.cols).val
               /\ pc' = "merged"
               /\ UNCHANGED err
    /\ UNCHANGED <<dataframes, date_start, date_end, freq,
                   complete_index, summary, wbVars, callVars>>

\* get_merge_summary on the merged series
SummarizeMerged ==
    /\ pc = "merged"
    /\ trace' = Append(trace, "get_merge_summary")
    /\ summary' = get_merge_summary(merged_df, timestamp_col, date_start, date_end)
    /\ pc' = "summarized"
    /\ UNCHANGED <<dataframes, date_start, date_end, freq, timestamp_col, merged_df,
                   err, complete_index, wbVars, callVars>>

\* main.py line 140
SummarizeEnrich ==
    /\ pc = "summarized"
    /\ trace' = Append(trace, "add_meteorological_calculations")
    /\ LET r == add_meteorological_calculations(merged_df) IN
       IF r.err # NoError
       THEN Raise(r.err) /\ UNCHANGED merged_df
       ELSE merged_df' = r.val /\ pc' = "enriched" /\ UNCHANGED err
    /\ UNCHANGED <<dataframes, date_start, date_end, freq, timestamp_col,
                   complete_index, summary, wbVars, callVars>>

\* main.py line 143
SummarizeEnriched ==
    /\ pc = "enriched"
    /\ trace' = Append(trace, "get_merge_summary")
    /\ result' = summary
    /\ summary' = get_merge_summary(merged_df, timestamp_col, date_start, date_end)
    /\ pc' = "done"
    /\ UNCHANGED <<dataframes, date_start, date_end, freq, timestamp_col, merged_df,
                   err, complete_index, wbVars, args, fs>>

NextSummarize ==
    \/ SummarizeMerge
    \/ SummarizeMerged
    \/ SummarizeEnrich
    \/ SummarizeEnriched

SpecSummarize == InitSummarize /\ [][NextSummarize]_vars

(* Properties of the summary of a merged series *)

SummaryInvariants(s) ==
    /\ s.total_rows = s.expected_rows
    /\ s.expected_rows = 48 * DaysInRange
    /\ 0 <= s.missing_timestamps /\ s.missing_timestamps <= s.total_rows
    /\ 0 <= s.data_coverage.num
    /\ s.data_coverage.num <= 100 * s.data_coverage.den

SummarizedTwice == pc = "done" /\ Len(trace) = 4 /\ err = NoError

NoDerivedNameInInput ==
    \A k \in 1..Len(dataframes) :
        Range(dataframes[k].cols) \cap Range(DerivedColumns) = {}

====
